---- MODULE Spec2Model ----
(***************************************************************************)
(* Model of the TechnIQ recommendation code:                               *)
(*   functions/ml/collaborative_filtering.py  AdvancedRecommendationEngine *)
(*   functions/lightweight_recommendations.py LightweightRecommendationEngine *)
(*   functions/main.py                        get_advanced_recommendations, *)
(*                                            generate_fallback_recommendations *)
(*                                                                         *)
(* Numbers.  Python floats are modelled in fixed point:                    *)
(*   ratings on the 1-5 scale            in hundredths   (2.5  -> 250)     *)
(*   lightweight scores on the 0-1 scale in thousandths  (0.1  -> 100)     *)
(*   confidences                         in hundredths   (0.5  -> 50)      *)
(*   percentages                         in thousandths of a percent       *)
(* A dictionary value that may be missing is a record [tag, v]:            *)
(*   tag = "None"  the key is absent (dict.get gives None or its default), *)
(*   tag = "num"   a number v,                                             *)
(*   tag = "str"   a non-numeric string (comparing it with a number,       *)
(*                 float() of it or parsing it as a date raises in Python),*)
(*   tag = "date"  a timestamp, v whole days before now.                   *)
(***************************************************************************)
EXTENDS Integers, Sequences, FiniteSets, TLC

VARIABLES
    path,            \* which entry point this behaviour exercises
    exercise_data,   \* argument of _calculate_implicit_rating
    session_data,    \* argument of _calculate_implicit_rating / calculate_exercise_score
    outcome,         \* what the last call returned: [op, raised, value]
    user_history,    \* the session records handed to the engines, in input order
    request,         \* the arguments of the last recommendation call
    recommendations, \* the list the last recommendation call returned
    engine,          \* the attributes of the AdvancedRecommendationEngine
    fitted,          \* history: the users and exercises of the last successful fit
    pipeline         \* the local variables of generate_drill_pipeline

vars == <<path, exercise_data, session_data, outcome, user_history, request,
          recommendations, engine, fitted, pipeline>>

----------------------------------------------------------------------------
(* Python values *)

None == [tag |-> "None", v |-> 0]

Str == [tag |-> "str", v |-> 0]

Num(n) == [tag |-> "num", v |-> n]

\* a timestamp, held as the whole days between it and now (negative: in the future)
Date(days_ago) == [tag |-> "date", v |-> days_ago]

\* bool(x): None and 0 are falsy; a non-empty string, a datetime and a non-zero
\* number are truthy
Truthy(x) == x.tag \in {"str", "date"} \/ (x.tag = "num" /\ x.v # 0)

\* a or b
PyOr(a, b) == IF Truthy(a) THEN a ELSE b

\* d.get(key, default) for a key whose value is x when present
Get(x, default) == IF x.tag = "None" THEN default ELSE x

Min(a, b) == IF a <= b THEN a ELSE b

Max(a, b) == IF a >= b THEN a ELSE b

\* max(lo, min(hi, x))
Clamp(lo, hi, x) == Max(lo, Min(hi, x))

Returned(x) == [raised |-> FALSE, value |-> x]

Raised == [raised |-> TRUE, value |-> 0]

NoOutcome == [op |-> "none", raised |-> FALSE, value |-> 0]

\* generate_drill_pipeline is not running
NoPipeline == [pc |-> "idle"]

NoRequest ==
    [user_id |-> "", exercise_id |-> "", candidate_exercises |-> <<>>,
     catalog |-> "none", n_factors |-> 50]

----------------------------------------------------------------------------
(* Python containers.  A dict is the sequence of its items [k, v] in       *)
(* insertion order, which is the order Python iterates it in.              *)

DictHas(d, key) == \E i \in 1..Len(d) : d[i].k = key

DictGet(d, key) == d[CHOOSE i \in 1..Len(d) : d[i].k = key].v

\* d[key] = value
DictPut(d, key, value) ==
    IF DictHas(d, key)
    THEN [i \in 1..Len(d) |-> IF d[i].k = key THEN [k |-> key, v |-> value] ELSE d[i]]
    ELSE Append(d, [k |-> key, v |-> value])

\* x in list
InList(x, list) == \E i \in 1..Len(list) : list[i] = x

\* list[:n]
Take(list, n) == SubSeq(list, 1, Min(n, Len(list)))

RECURSIVE InsertDesc(_, _)
\* one insertion of a stable descending sort on the field v
InsertDesc(sorted, x) ==
    IF sorted = <<>> THEN <<x>>
    ELSE IF Head(sorted).v >= x.v THEN <<Head(sorted)>> \o InsertDesc(Tail(sorted), x)
    ELSE <<x>> \o sorted

RECURSIVE SortFrom(_, _, _)
SortFrom(list, i, acc) ==
    IF i > Len(list) THEN acc ELSE SortFrom(list, i + 1, InsertDesc(acc, list[i]))

\* list.sort(key=lambda x: x[1], reverse=True): stable, equal keys keep their order
SortDesc(list) == SortFrom(list, 1, <<>>)

RECURSIVE SumFrom(_, _)
SumFrom(list, i) == IF i > Len(list) THEN 0 ELSE list[i] + SumFrom(list, i + 1)

\* sum(list)
Sum(list) == SumFrom(list, 1)

RECURSIVE ISqrtBetween(_, _, _)
\* the largest r in lo..hi with r*r <= x
ISqrtBetween(x, lo, hi) ==
    IF lo >= hi THEN lo
    ELSE LET mid == (lo + hi + 1) \div 2
         IN  IF mid * mid <= x THEN ISqrtBetween(x, mid, hi)
             ELSE ISqrtBetween(x, lo, mid - 1)

\* math.sqrt, rounded down to a whole number
ISqrt(x) == ISqrtBetween(x, 0, 4000)

RECURSIVE RatioStep(_, _, _, _)
RatioStep(q, r, b, digits) ==
    IF digits = 0 THEN q
    ELSE RatioStep(10 * q + ((10 * r) \div b), (10 * r) % b, b, digits - 1)

\* a / b in units of 10^-digits, rounded down (long division, a >= 0, b > 0)
Ratio(a, b, digits) == RatioStep(a \div b, a % b, b, digits)

----------------------------------------------------------------------------
(* AdvancedRecommendationEngine.__init__, collaborative_filtering.py       *)

NoMatrix == [present |-> FALSE, shape |-> <<0, 0>>, cells |-> <<>>]

NoFactors == [present |-> FALSE, rows |-> 0, cols |-> 0]

\* lines 19-51; NoVocabulary is the user and exercise set of a model never fitted
NoVocabulary == [users |-> {}, exercises |-> {}]

\* lines 19-51
NewEngine(n_factors) ==
    [n_factors |-> Min(n_factors, 50),
     user_factors |-> NoFactors, item_factors |-> NoFactors,
     user_biases |-> <<>>, item_biases |-> <<>>, global_mean |-> 0,
     user_to_index |-> <<>>, index_to_user |-> <<>>,
     exercise_to_index |-> <<>>, index_to_exercise |-> <<>>,
     interaction_matrix |-> NoMatrix, is_trained |-> FALSE,
     exercise_features |-> <<>>, user_profiles |-> <<>>]

----------------------------------------------------------------------------
(* AdvancedRecommendationEngine._calculate_implicit_rating                 *)
(* collaborative_filtering.py 178-251.  Ratings in hundredths.             *)

\* line 191: exercise_data.get('rating') or exercise_data.get('performanceRating')
explicit_rating(ex) == PyOr(ex.rating, ex.performanceRating)

\* lines 199-205
completion_adjustment(ex) ==
    LET completion == Get(ex.completion_percentage, Num(100))
    IN  IF completion.tag = "str" THEN Raised
        ELSE IF completion.v >= 100 THEN Returned(100)
        ELSE IF completion.v >= 80 THEN Returned(50)
        ELSE IF completion.v < 50 THEN Returned(-50)
        ELSE Returned(0)

\* lines 208-215; duration_ratio = duration / max(expected_duration, 1) is
\* compared with 0.8, 1.2 and 1.5 by cross-multiplication
duration_adjustment(ex) ==
    LET duration == Get(ex.duration, Num(0))
    IN  IF duration.tag = "str" THEN Raised
        ELSE IF duration.v > 0
        THEN LET expected_duration == Get(ex.expected_duration, duration)
             IN  IF expected_duration.tag = "str" THEN Raised
                 ELSE LET den == Max(expected_duration.v, 1)
                      IN  IF 8 * den <= 10 * duration.v /\ 10 * duration.v <= 12 * den
                          THEN Returned(30)
                          ELSE IF 10 * duration.v > 15 * den
                          THEN Returned(-20)
                          ELSE Returned(0)
        ELSE Returned(0)

\* lines 218-220 and 223-225 and 240-242: (float(x) - 3.0) * weight when x is truthy
scaled_adjustment(x, weight) ==
    IF ~Truthy(x) THEN Returned(0)
    ELSE IF x.tag = "str" THEN Raised
    ELSE Returned((x.v - 3) * weight)

\* lines 228-237
difficulty_adjustment(ex) ==
    LET perceived_diff == PyOr(ex.perceived_difficulty, ex.perceivedDifficulty)
        actual_diff == Get(ex.difficulty, Num(3))
    IN  IF Truthy(perceived_diff) /\ Truthy(actual_diff)
        THEN IF actual_diff.tag = "str" \/ perceived_diff.tag = "str" THEN Raised
             ELSE LET diff_delta == actual_diff.v - perceived_diff.v
                  IN  IF -1 <= diff_delta /\ diff_delta <= 0 THEN Returned(20)
                      ELSE IF diff_delta < -2 THEN Returned(-30)
                      ELSE IF diff_delta > 2 THEN Returned(-40)
                      ELSE Returned(0)
        ELSE Returned(0)

\* the neutral starting point, line 196, and the except value, line 251
NeutralRating == 250

\* lines 195-247 without the final clamp: the sum of the adjustments
implicit_adjustments(ex, sess) ==
    << completion_adjustment(ex),
       duration_adjustment(ex),
       scaled_adjustment(PyOr(ex.technical_execution, ex.technicalExecution), 30),
       scaled_adjustment(PyOr(ex.enjoyment_rating, ex.enjoymentRating), 20),
       difficulty_adjustment(ex),
       scaled_adjustment(PyOr(sess.session_rating, sess.overallRating), 10) >>

\* the body of the try block, lines 190-247
implicit_rating_body(ex, sess) ==
    LET explicit == explicit_rating(ex)
        adj == implicit_adjustments(ex, sess)
    IN  IF explicit.tag = "str" THEN Raised          \* str > 0 raises TypeError
        ELSE IF Truthy(explicit) /\ explicit.v > 0
        THEN Returned(Clamp(100, 500, 100 * explicit.v))
        ELSE IF \E k \in 1..6 : adj[k].raised THEN Raised
        ELSE Returned(Clamp(100, 500,
                 NeutralRating + adj[1].value + adj[2].value + adj[3].value
                               + adj[4].value + adj[5].value + adj[6].value))

\* the same without the except clause: an exception escapes to the caller
calculate_implicit_rating_no_except(ex, sess) == implicit_rating_body(ex, sess)

\* the same with the explicit rating returned unclamped
calculate_implicit_rating_unclamped(ex, sess) ==
    LET r == implicit_rating_body(ex, sess)
        explicit == explicit_rating(ex)
    IN  IF r.raised THEN Returned(NeutralRating)
        ELSE IF explicit.tag = "num" /\ explicit.v > 0 THEN Returned(100 * explicit.v)
        ELSE r

\* lines 189-251: the try block and its except clause
calculate_implicit_rating(ex, sess) ==
    LET r == implicit_rating_body(ex, sess)
    IN  IF r.raised THEN Returned(NeutralRating) ELSE r

----------------------------------------------------------------------------
(* Inputs of the rating estimator *)

NoExercise ==
    [exercise_id |-> "", name |-> "", rating |-> None, performanceRating |-> None,
     completion_percentage |-> None,
     duration |-> None, expected_duration |-> None,
     technical_execution |-> None, technicalExecution |-> None,
     enjoyment_rating |-> None, enjoymentRating |-> None,
     perceived_difficulty |-> None, perceivedDifficulty |-> None,
     difficulty |-> None]

NoSession == [session_rating |-> None, overallRating |-> None]

RatingPairs ==
    { <<None, None>>, <<Str, None>>, <<Num(-1), Num(5)>>, <<Num(0), Num(5)>>,
      <<Num(3), None>>, <<Num(7), None>>, <<None, Num(5)>>, <<Num(3), Num(5)>> }

CompletionValues == { None, Num(40), Num(60), Num(80), Num(100) }

DurationPairs ==
    { <<None, None>>, <<Num(0), None>>, <<Num(10), None>>, <<Num(10), Num(5)>>,
      <<Num(10), Num(8)>>, <<Num(10), Num(0)>> }

TechnicalPairs ==
    { <<None, None>>, <<Str, None>>, <<Num(1), None>>, <<Num(5), None>>,
      <<None, Num(4)>>, <<Num(0), Num(4)>> }

EnjoymentValues == { None, Num(1), Num(5) }

DifficultyPairs ==
    { <<None, None>>, <<Num(3), None>>, <<Num(5), Num(1)>>, <<Num(1), Num(5)>>,
      <<Num(1), Num(0)>>, <<Num(5), Num(3)>> }

SessionRatingValues == { None, Num(1), Num(5) }

ExerciseRecords ==
    { [NoExercise EXCEPT
         !.rating = r[1], !.performanceRating = r[2], !.completion_percentage = c,
         !.duration = d[1], !.expected_duration = d[2],
         !.technical_execution = t[1], !.technicalExecution = t[2],
         !.enjoyment_rating = e, !.perceived_difficulty = p[1], !.difficulty = p[2]] :
      r \in RatingPairs, c \in CompletionValues, d \in DurationPairs,
      t \in TechnicalPairs, e \in EnjoymentValues, p \in DifficultyPairs }

SessionRecords ==
    { [session_rating |-> s, overallRating |-> None] : s \in SessionRatingValues }

----------------------------------------------------------------------------
(* The rating estimator applied to one record *)

InitRating ==
    /\ path = "rating"
    /\ pipeline = NoPipeline
    /\ exercise_data \in ExerciseRecords
    /\ session_data \in SessionRecords
    /\ outcome = NoOutcome
    /\ user_history = <<>>
    /\ request = NoRequest
    /\ recommendations = <<>>
    /\ engine = NewEngine(50)
    /\ fitted = NoVocabulary

CalculateImplicitRating ==
    /\ path = "rating"
    /\ outcome.op = "none"
    /\ LET r == calculate_implicit_rating(exercise_data, session_data)
       IN  outcome' = [op |-> "_calculate_implicit_rating",
                       raised |-> r.raised, value |-> r.value]
    /\ UNCHANGED <<pipeline, path, exercise_data, session_data, user_history, request,
                   recommendations, engine, fitted>>

NextRating == CalculateImplicitRating

SpecRating == InitRating /\ [][NextRating]_vars

----------------------------------------------------------------------------
(* LightweightRecommendationEngine.calculate_exercise_score                *)
(* lightweight_recommendations.py 32-46.  Scores in thousandths;           *)
(* completionRate is held in hundredths, duration in seconds.              *)

\* the weighted sum with the duration term left uncapped
weighted_score_uncapped(completion_rate, duration, technical_execution) ==
    4 * completion_rate + (duration \div 6) + 60 * technical_execution

\* lines 35-44: 0.4*completion + 0.3*min(duration/60/30, 1) + 0.3*technical/5
weighted_score(completion_rate, duration, technical_execution) ==
    4 * completion_rate + (Min(duration, 1800) \div 6) + 60 * technical_execution

\* lines 32-46
calculate_exercise_score(s) ==
    LET completion_rate == Get(s.completionRate, Num(50)).v
        duration == Get(s.duration, Num(0)).v
        technical_execution == Get(s.technicalExecution, Num(3)).v
    IN  Max(100, Min(1000, weighted_score(completion_rate, duration, technical_execution)))

CompletionRates == { None, Num(0), Num(50), Num(100), Num(120) }

Durations == { None, Num(0), Num(900), Num(1800), Num(3600) }

TechnicalExecutions == { None, Num(0), Num(1), Num(3), Num(5) }

ScoreRecords ==
    { [completionRate |-> c, duration |-> d, technicalExecution |-> t] :
      c \in CompletionRates, d \in Durations, t \in TechnicalExecutions }

InitScore ==
    /\ path = "score"
    /\ pipeline = NoPipeline
    /\ exercise_data = NoExercise
    /\ session_data \in ScoreRecords
    /\ outcome = NoOutcome
    /\ user_history = <<>>
    /\ request = NoRequest
    /\ recommendations = <<>>
    /\ engine = NewEngine(50)
    /\ fitted = NoVocabulary

CalculateExerciseScore ==
    /\ path = "score"
    /\ outcome.op = "none"
    /\ outcome' = [op |-> "calculate_exercise_score", raised |-> FALSE,
                   value |-> calculate_exercise_score(session_data)]
    /\ UNCHANGED <<pipeline, path, exercise_data, session_data, user_history, request,
                   recommendations, engine, fitted>>

NextScore == CalculateExerciseScore

SpecScore == InitScore /\ [][NextScore]_vars

----------------------------------------------------------------------------
(* LightweightRecommendationEngine, lightweight_recommendations.py         *)
(* user_exercise_scores is a dict user -> dict exercise -> score.          *)
(* An id that is missing, None or '' is the empty string.                  *)

\* lines 15-30; the similarity in thousandths
calculate_user_similarity(user1_scores, user2_scores) ==
    LET common == { i \in 1..Len(user1_scores) : DictHas(user2_scores, user1_scores[i].k) }
        a == [i \in 1..Len(user1_scores) |->
                 IF i \in common THEN user1_scores[i].v ELSE 0]
        b == [i \in 1..Len(user1_scores) |->
                 IF i \in common THEN DictGet(user2_scores, user1_scores[i].k) ELSE 0]
        dot_product == Sum([i \in 1..Len(a) |-> a[i] * b[i]])
        norm1 == ISqrt(Sum([i \in 1..Len(a) |-> a[i] * a[i]]))
        norm2 == ISqrt(Sum([i \in 1..Len(b) |-> b[i] * b[i]]))
    IN  IF Cardinality(common) < 2 THEN 0
        ELSE IF norm1 = 0 \/ norm2 = 0 THEN 0
        ELSE Ratio(dot_product, norm1 * norm2, 3)

\* lines 50-64: one iteration of the loop of build_user_profiles
profile_session(scores, session) ==
    LET user_id == session.userId
        exercise_name == IF session.exerciseName = "" THEN "Unknown"
                         ELSE session.exerciseName
        score == calculate_exercise_score(session)
        mine == IF DictHas(scores, user_id) THEN DictGet(scores, user_id) ELSE <<>>
    IN  IF user_id = "" THEN scores
        ELSE IF DictHas(mine, exercise_name)
        THEN DictPut(scores, user_id,
                     DictPut(mine, exercise_name,
                             (DictGet(mine, exercise_name) + score) \div 2))
        ELSE DictPut(scores, user_id, DictPut(mine, exercise_name, score))

RECURSIVE build_from(_, _, _)
build_from(scores, user_sessions, i) ==
    IF i > Len(user_sessions) THEN scores
    ELSE build_from(profile_session(scores, user_sessions[i]), user_sessions, i + 1)

\* lines 48-64, on a new engine
build_user_profiles(user_sessions) == build_from(<<>>, user_sessions, 1)

\* lines 73-79 without the sort of line 82
similar_users_unsorted(scores, target_user_id) ==
    LET target_scores == DictGet(scores, target_user_id)
        sims == [i \in 1..Len(scores) |->
                   [k |-> scores[i].k,
                    v |-> calculate_user_similarity(target_scores, scores[i].v)]]
    IN  SelectSeq(sims, LAMBDA e : e.k # target_user_id /\ e.v > 100)

\* lines 73-82: the neighbours with similarity > 0.1, most similar first
similar_users(scores, target_user_id) ==
    LET target_scores == DictGet(scores, target_user_id)
        sims == [i \in 1..Len(scores) |->
                   [k |-> scores[i].k,
                    v |-> calculate_user_similarity(target_scores, scores[i].v)]]
    IN  SortDesc(SelectSeq(sims, LAMBDA e : e.k # target_user_id /\ e.v > 100))

RECURSIVE neighbour_scores(_, _, _, _, _)
\* lines 87-92: exercise_scores[exercise].append(score * similarity), neighbour by
\* neighbour (n) and exercise by exercise (j)
neighbour_scores(acc, scores, target_scores, neighbours, pos) ==
    LET n == pos[1]
        j == pos[2]
    IN  IF n > Len(neighbours) THEN acc
        ELSE LET user_scores == DictGet(scores, neighbours[n].k)
             IN  IF j > Len(user_scores)
                 THEN neighbour_scores(acc, scores, target_scores, neighbours, <<n + 1, 1>>)
                 ELSE LET exercise == user_scores[j].k
                          weighted == (user_scores[j].v * neighbours[n].v) \div 1000
                          sofar == IF DictHas(acc, exercise) THEN DictGet(acc, exercise)
                                   ELSE <<>>
                      IN  neighbour_scores(
                            IF DictHas(target_scores, exercise) THEN acc
                            ELSE DictPut(acc, exercise, Append(sofar, weighted)),
                            scores, target_scores, neighbours, <<n, j + 1>>)

\* lines 95-99: the mean score of every exercise that is a candidate
average_scores(exercise_scores, all_exercises) ==
    LET listed == SelectSeq(exercise_scores, LAMBDA e : InList(e.k, all_exercises))
    IN  [i \in 1..Len(listed) |->
           [k |-> listed[i].k, v |-> Sum(listed[i].v) \div Len(listed[i].v)]]

\* lines 66-103
get_collaborative_recommendations(scores, target_user_id, all_exercises, limit) ==
    IF ~DictHas(scores, target_user_id) THEN <<>>
    ELSE Take(SortDesc(average_scores(
                  neighbour_scores(<<>>, scores, DictGet(scores, target_user_id),
                                   Take(similar_users(scores, target_user_id), 5),
                                   <<1, 1>>),
                  all_exercises)),
              limit)

\* exercise_metadata[exercise].get('skillType', 'General')
skill_type(exercise_metadata, exercise) ==
    IF exercise_metadata[exercise].skillType = "" THEN "General"
    ELSE exercise_metadata[exercise].skillType

\* exercise_metadata[exercise].get('difficultyLevel', 1)
difficulty_level(exercise_metadata, exercise) ==
    Get(exercise_metadata[exercise].difficultyLevel, Num(1)).v

\* lines 135-136: the sum over the rated exercises that have metadata, divided by
\* the number of rated exercises, then int()
user_avg_difficulty(target_scores, exercise_metadata) ==
    Sum([i \in 1..Len(target_scores) |->
            IF target_scores[i].k \in DOMAIN exercise_metadata
            THEN difficulty_level(exercise_metadata, target_scores[i].k) ELSE 0])
    \div Max(Len(target_scores), 1)

\* lines 113-122 and 132: the mean score of the rated exercises of one skill type,
\* 0.5 when there is none
skill_preference(target_scores, exercise_metadata, skill) ==
    LET mine == SelectSeq(target_scores,
                    LAMBDA e : /\ e.k \in DOMAIN exercise_metadata
                               /\ skill_type(exercise_metadata, e.k) = skill)
    IN  IF mine = <<>> THEN 500
        ELSE Sum([i \in 1..Len(mine) |-> mine[i].v]) \div Len(mine)

\* line 138
difficulty_bonus(difficulty, avg) == IF difficulty = avg + 1 THEN 100 ELSE 0

\* lines 105-144
get_content_based_recommendations(scores, target_user_id, all_exercises, exercise_metadata, limit) ==
    IF ~DictHas(scores, target_user_id) THEN <<>>
    ELSE LET target_scores == DictGet(scores, target_user_id)
             fresh == SelectSeq(all_exercises,
                         LAMBDA ex : /\ ~DictHas(target_scores, ex)
                                     /\ ex \in DOMAIN exercise_metadata)
             recs == [i \in 1..Len(fresh) |->
                        [k |-> fresh[i],
                         v |-> skill_preference(target_scores, exercise_metadata,
                                                skill_type(exercise_metadata, fresh[i]))
                               + difficulty_bonus(
                                    difficulty_level(exercise_metadata, fresh[i]),
                                    user_avg_difficulty(target_scores, exercise_metadata))]]
         IN  Take(SortDesc(recs), limit)

RECURSIVE add_content_replacing(_, _, _)
\* lines 161-165 with line 165 in both branches
add_content_replacing(exercise_scores, content_recs, i) ==
    IF i > Len(content_recs) THEN exercise_scores
    ELSE add_content_replacing(
             DictPut(exercise_scores, content_recs[i].k, (3 * content_recs[i].v) \div 10),
             content_recs, i + 1)

RECURSIVE add_content(_, _, _)
\* lines 161-165
add_content(exercise_scores, content_recs, i) ==
    IF i > Len(content_recs) THEN exercise_scores
    ELSE LET e == content_recs[i]
             mine == IF DictHas(exercise_scores, e.k) THEN DictGet(exercise_scores, e.k)
                     ELSE 0
         IN  add_content(DictPut(exercise_scores, e.k, mine + (3 * e.v) \div 10),
                         content_recs, i + 1)

\* line 176
variation(i) == IF i < 3 THEN -5 + i * 3 ELSE 0

\* lines 174-177: int(min(95, max(45, score * 100)) + variation), in thousandths
\* of a percent; i is the 0-based position
match_percentage(score, i) ==
    1000 * ((Min(950, Max(450, score)) + 10 * variation(i)) \div 10)

\* lines 174-190: the records of the top recommendations
recommendation_records(top, top_collab) ==
    [i \in 1..Len(top) |->
       [exerciseName |-> top[i].k,
        matchPercentage |-> match_percentage(top[i].v, i - 1),
        reason |-> IF \E j \in 1..Len(top_collab) : top_collab[j].k = top[i].k
                   THEN "Similar players have improved with this drill"
                   ELSE "Matches your skill development pattern",
        confidenceScore |-> top[i].v]]

\* lines 156-190: the two lists combined 0.7 / 0.3, sorted, cut and formatted
combine_recommendations(collab_recs, content_recs, limit) ==
    recommendation_records(
        Take(SortDesc(add_content(
                 [i \in 1..Len(collab_recs) |->
                    [k |-> collab_recs[i].k, v |-> (7 * collab_recs[i].v) \div 10]],
                 content_recs, 1)),
             limit),
        Take(collab_recs, 3))

\* lines 146-192
generate_recommendations(scores, target_user_id, all_exercises, exercise_metadata, limit) ==
    combine_recommendations(
        get_collaborative_recommendations(scores, target_user_id, all_exercises,
                                          limit * 2),
        get_content_based_recommendations(scores, target_user_id, all_exercises,
                                          exercise_metadata, limit * 2),
        limit)

\* lines 207-215
default_recommendations ==
    LET default_exercises == <<"Ball Control", "Passing Accuracy", "Endurance Run">>
    IN  [i \in 1..3 |->
           [exerciseName |-> default_exercises[i],
            matchPercentage |-> 1000 * (85 - (i - 1) * 5),
            reason |-> "Foundational skill for all players",
            confidenceScore |-> 800 - (i - 1) * 100]]

\* lines 194-217 without the fallback of lines 206-215
create_lightweight_recommendations_no_default(user_sessions, all_exercises, exercise_metadata, target_user_id) ==
    generate_recommendations(build_user_profiles(user_sessions), target_user_id,
                             all_exercises, exercise_metadata, 3)

\* lines 206-215: the fallback when the engine recommends nothing
or_defaults(recs) == IF recs = <<>> THEN default_recommendations ELSE recs

\* lines 194-217
create_lightweight_recommendations(user_sessions, all_exercises, exercise_metadata, target_user_id) ==
    or_defaults(generate_recommendations(build_user_profiles(user_sessions),
                                         target_user_id, all_exercises,
                                         exercise_metadata, 3))

----------------------------------------------------------------------------
(* Session records.  One record carries the keys both engines read:        *)
(* userId, exerciseName, completionRate, duration, technicalExecution for  *)
(* the lightweight engine; user_id, firebaseUID, exercises, completed_at,  *)
(* date, session_rating, overallRating for the advanced engine.            *)

NoRecord ==
    [userId |-> "", exerciseName |-> "", completionRate |-> None, duration |-> None,
     technicalExecution |-> None, user_id |-> "", firebaseUID |-> "",
     exercises |-> <<>>, completed_at |-> None, date |-> None,
     session_rating |-> None, overallRating |-> None]

\* the users and exercises of the model, in the order Python's sorted() gives
UserIds == <<"u1", "u2", "u3">>

ExerciseIds == <<"A", "B", "C", "Unknown">>

IndexIn(list, x) == CHOOSE i \in 1..Len(list) : list[i] = x

PoorSession == [completionRate |-> Num(0), duration |-> None, technicalExecution |-> Num(1)]

GoodSession ==
    [completionRate |-> Num(100), duration |-> Num(1800), technicalExecution |-> Num(5)]

LightSession(u, e, q) ==
    [NoRecord EXCEPT !.userId = u, !.exerciseName = e,
                     !.completionRate = q.completionRate, !.duration = q.duration,
                     !.technicalExecution = q.technicalExecution]

LightSessions ==
    { LightSession("u1", "A", PoorSession), LightSession("u1", "A", GoodSession),
      LightSession("u1", "B", GoodSession),
      LightSession("u2", "A", GoodSession),
      LightSession("u2", "B", PoorSession), LightSession("u2", "B", GoodSession),
      LightSession("u2", "C", GoodSession),
      LightSession("", "A", GoodSession), LightSession("u1", "", GoodSession) }

\* build_user_profiles treats the sessions of different (user, exercise) pairs
\* independently, so the pairs are fed in one fixed order; the sessions of one pair
\* come in every order
LightKey(s) ==
    IF s.userId = "" THEN 0
    ELSE 10 * IndexIn(UserIds, s.userId)
         + (IF s.exerciseName = "" THEN 4 ELSE IndexIn(ExerciseIds, s.exerciseName))

MaxSessions == 5

\* the catalogs a request may carry: exercise -> metadata
Catalog(name) ==
    CASE name = "skills" ->
           [e \in {"A", "B", "C"} |->
              [skillType |-> IF e = "A" THEN "Passing" ELSE "Dribbling",
               difficultyLevel |-> Num(IndexIn(ExerciseIds, e))]]
      [] name = "plain" ->
           [e \in {"A", "B"} |-> [skillType |-> "", difficultyLevel |-> None]]
      [] OTHER -> [e \in {} |-> [skillType |-> "", difficultyLevel |-> None]]

CatalogNames == {"skills", "plain", "empty"}

CandidateLists == { <<"A", "B", "C">>, <<"C", "B">> }

----------------------------------------------------------------------------
(* create_lightweight_recommendations on any session list *)

InitLight ==
    /\ path = "lightweight"
    /\ pipeline = NoPipeline
    /\ exercise_data = NoExercise
    /\ session_data = NoSession
    /\ outcome = NoOutcome
    /\ user_history = <<>>
    /\ request = NoRequest
    /\ recommendations = <<>>
    /\ engine = NewEngine(50)
    /\ fitted = NoVocabulary

\* one more session record is on file
AddLightSession ==
    /\ path = "lightweight"
    /\ outcome.op = "none"
    /\ Len(user_history) < MaxSessions
    /\ \E s \in LightSessions :
          /\ IF user_history = <<>> THEN TRUE
             ELSE LightKey(user_history[Len(user_history)]) <= LightKey(s)
          /\ user_history' = Append(user_history, s)
    /\ UNCHANGED <<pipeline, path, exercise_data, session_data, outcome, request,
                   recommendations, engine, fitted>>

CreateLightweightRecommendations ==
    /\ path = "lightweight"
    /\ outcome.op = "none"
    /\ \E target_user_id \in {"u1", "u2", "u3"}, all_exercises \in CandidateLists,
          c \in CatalogNames :
          /\ request' = [request EXCEPT !.user_id = target_user_id,
                                         !.candidate_exercises = all_exercises,
                                         !.catalog = c]
          /\ recommendations' = create_lightweight_recommendations(
                                    user_history, all_exercises, Catalog(c),
                                    target_user_id)
    /\ outcome' = [op |-> "create_lightweight_recommendations", raised |-> FALSE,
                   value |-> 0]
    /\ UNCHANGED <<pipeline, path, exercise_data, session_data, user_history, engine, fitted>>

NextLight == AddLightSession \/ CreateLightweightRecommendations

SpecLight == InitLight /\ [][NextLight]_vars

----------------------------------------------------------------------------
(* AdvancedRecommendationEngine, collaborative_filtering.py                *)
(* The engine is a record of the attributes __init__ sets.  A dict keyed   *)
(* by ids is a function on the set of its keys; interaction_matrix is      *)
(* [present, shape, cells] with cells the stored entries of the csr_matrix;*)
(* user_factors and item_factors keep the shape of the arrays svds gives   *)
(* (scipy is no part of the repository: its factor values are not          *)
(* computed, see predict_rating).                                          *)

\* lines 82 and 114: session.get('user_id') or session.get('firebaseUID')
session_user(session) ==
    IF session.user_id # "" THEN session.user_id ELSE session.firebaseUID

\* lines 89 and 123: exercise.get('exercise_id') or exercise.get('name')
exercise_key(exercise) ==
    IF exercise.exercise_id # "" THEN exercise.exercise_id ELSE exercise.name

\* lines 78-91: the two vocabularies
history_users(history) ==
    { session_user(history[i]) : i \in 1..Len(history) } \ {""}

history_exercises(history) ==
    UNION { { exercise_key(history[i].exercises[j]) :
               j \in 1..Len(history[i].exercises) } :
            i \in 1..Len(history) } \ {""}

\* sorted(ids): UserIds and ExerciseIds list the ids in sorted order
SortedIds(ids, universe) == SelectSeq(universe, LAMBDA x : x \in ids)

\* lines 94 and 97 with enumerate(sorted(ids), 1)
index_of_one_based(ids, universe) ==
    [x \in ids |-> IndexIn(SortedIds(ids, universe), x)]

\* lines 94 and 97: {id: idx for idx, id in enumerate(sorted(ids))}
index_of(ids, universe) ==
    [x \in ids |-> IndexIn(SortedIds(ids, universe), x) - 1]

\* lines 95 and 98: {idx: id for id, idx in to_index.items()}
inverse_of(to_index) ==
    [idx \in { to_index[x] : x \in DOMAIN to_index } |->
        CHOOSE x \in DOMAIN to_index : to_index[x] = idx]

\* line 141: np.exp(-days_ago / 30.0), in ten-thousandths, for the ages the model uses
temporal_weight(days_ago) ==
    CASE days_ago = -30 -> 27183
      [] days_ago = 0   -> 10000
      [] days_ago = 30  -> 3679
      [] days_ago = 60  -> 1353
      [] days_ago = 90  -> 498

\* lines 133-144: rating *= temporal_weight when the session has a date that parses
decayed(rating, session) ==
    LET session_date == PyOr(session.completed_at, session.date)
    IN  IF session_date.tag = "date"
        THEN (rating * temporal_weight(session_date.v)) \div 10000
        ELSE rating

RECURSIVE collect_ratings(_, _, _, _)
\* lines 113-150: user_exercise_ratings[(user_idx, exercise_idx)].append(rating),
\* session by session (pos[1]) and exercise by exercise (pos[2])
collect_ratings(acc, self, history, pos) ==
    LET i == pos[1]
        j == pos[2]
    IN  IF i > Len(history) THEN acc
        ELSE LET session == history[i]
                 user_id == session_user(session)
             IN  IF user_id = "" \/ user_id \notin DOMAIN self.user_to_index
                    \/ j > Len(session.exercises)
                 THEN collect_ratings(acc, self, history, <<i + 1, 1>>)
                 ELSE LET exercise == session.exercises[j]
                          exercise_id == exercise_key(exercise)
                          key == << self.user_to_index[user_id],
                                    IF exercise_id \in DOMAIN self.exercise_to_index
                                    THEN self.exercise_to_index[exercise_id] ELSE -1 >>
                          rating == decayed(
                                      calculate_implicit_rating(exercise, session).value,
                                      session)
                          sofar == IF DictHas(acc, key) THEN DictGet(acc, key) ELSE <<>>
                      IN  collect_ratings(
                            IF exercise_id = "" \/ key[2] = -1 THEN acc
                            ELSE DictPut(acc, key, Append(sofar, rating)),
                            self, history, <<i, j + 1>>)

\* line 155: np.exp(np.linspace(-1, 0, n)), in ten-thousandths
recency_weights(n) ==
    CASE n = 1 -> <<3679>>
      [] n = 2 -> <<3679, 10000>>
      [] n = 3 -> <<3679, 6065, 10000>>
      [] n = 4 -> <<3679, 5134, 7165, 10000>>
      [] n = 5 -> <<3679, 4724, 6065, 7788, 10000>>
      [] n = 6 -> <<3679, 4493, 5488, 6703, 8187, 10000>>

\* lines 155-156: np.average(rating_list, weights=weights)
weighted_rating(rating_list) ==
    LET weights == recency_weights(Len(rating_list))
    IN  Sum([i \in 1..Len(rating_list) |-> rating_list[i] * weights[i]])
        \div Sum(weights)

\* lines 74-98: the profiles, the catalog and the two vocabularies
with_vocabulary(self, users, exercises, profiles, exercise_catalog) ==
    [self EXCEPT
       !.user_profiles = profiles,
       !.exercise_features = exercise_catalog,
       !.user_to_index = index_of(users, UserIds),
       !.index_to_user = inverse_of(index_of(users, UserIds)),
       !.exercise_to_index = index_of(exercises, ExerciseIds),
       !.index_to_exercise = inverse_of(index_of(exercises, ExerciseIds))]

\* lines 153-169: one cell per rated pair, and the mean of the cells
with_matrix(self, user_exercise_ratings) ==
    [self EXCEPT
       !.interaction_matrix =
           [present |-> TRUE,
            shape |-> <<Cardinality(DOMAIN self.user_to_index),
                        Cardinality(DOMAIN self.exercise_to_index)>>,
            cells |-> [key \in { user_exercise_ratings[i].k :
                                  i \in 1..Len(user_exercise_ratings) } |->
                         weighted_rating(DictGet(user_exercise_ratings, key))]],
       !.global_mean =
           IF user_exercise_ratings = <<>> THEN 250
           ELSE Sum([i \in 1..Len(user_exercise_ratings) |->
                       weighted_rating(user_exercise_ratings[i].v)])
                \div Len(user_exercise_ratings)]

\* lines 105-169 on an engine whose vocabularies are set
with_ratings(self, history) ==
    with_matrix(self, collect_ratings(<<>>, self, history, <<1, 1>>))

\* lines 53-176
prepare_training_data(self, history, profiles, exercise_catalog) ==
    with_ratings(with_vocabulary(self, history_users(history),
                                 history_exercises(history), profiles,
                                 exercise_catalog),
                 history)

\* interaction_matrix[i, :].mean(): the stored entries of row i over the row's width
row_mean(matrix, i) ==
    LET row == { key \in DOMAIN matrix.cells : key[1] = i }
        entries == [j \in 0..(matrix.shape[2] - 1) |->
                      IF <<i, j>> \in row THEN matrix.cells[<<i, j>>] ELSE 0]
    IN  Sum([j \in 1..matrix.shape[2] |-> entries[j - 1]]) \div matrix.shape[2]

\* interaction_matrix[:, j].mean()
column_mean(matrix, j) ==
    LET col == { key \in DOMAIN matrix.cells : key[2] = j }
        entries == [i \in 0..(matrix.shape[1] - 1) |->
                      IF <<i, j>> \in col THEN matrix.cells[<<i, j>>] ELSE 0]
    IN  Sum([i \in 1..matrix.shape[1] |-> entries[i - 1]]) \div matrix.shape[1]

\* line 271 without the "- 1"
actual_factors_off_by_one(self) ==
    Min(self.n_factors,
        Min(self.interaction_matrix.shape[1], self.interaction_matrix.shape[2]))

\* line 271
actual_factors(self) ==
    Min(self.n_factors,
        Min(self.interaction_matrix.shape[1], self.interaction_matrix.shape[2]) - 1)

\* lines 253-307: the engine after the call and the value returned.  svds is taken
\* to succeed whenever it is reached (1 <= k < min(shape)).
train_model(self) ==
    LET matrix == self.interaction_matrix
        n_users == matrix.shape[1]
        n_exercises == matrix.shape[2]
        k == actual_factors(self)
    IN  IF ~matrix.present THEN [engine |-> self, result |-> FALSE]
        ELSE IF k < 1 THEN [engine |-> self, result |-> FALSE]
        ELSE [engine |->
                [self EXCEPT
                   !.user_factors = [present |-> TRUE, rows |-> n_users, cols |-> k],
                   !.item_factors = [present |-> TRUE, rows |-> n_exercises, cols |-> k],
                   !.user_biases = [i \in 1..n_users |->
                                      row_mean(matrix, i - 1) - self.global_mean],
                   !.item_biases = [j \in 1..n_exercises |->
                                      column_mean(matrix, j - 1) - self.global_mean],
                   !.is_trained = TRUE],
              result |-> TRUE]

\* the values np.dot(user_factors[u], item_factors[i]) may take, in hundredths:
\* svds gives factor matrices with orthonormal columns, whose rows have norm at most
\* 1, so the product lies in [-1, 1]; the model takes its ends and its middle
DotValues == {-100, 0, 100}

\* lines 327-338: the prediction of a trained model, or an exception when an index
\* is outside the fitted arrays
prediction_body(self, user_id, exercise_id, dot) ==
    LET user_idx == self.user_to_index[user_id]
        exercise_idx == self.exercise_to_index[exercise_id]
    IN  IF \/ user_idx >= Len(self.user_biases)
           \/ exercise_idx >= Len(self.item_biases)
           \/ user_idx >= self.user_factors.rows
           \/ exercise_idx >= self.item_factors.rows
        THEN Raised
        ELSE Returned(Clamp(100, 500,
                 self.global_mean + self.user_biases[user_idx + 1]
                 + self.item_biases[exercise_idx + 1] + dot))

\* lines 309-342; dot is the value of the factor product
predict_rating(self, user_id, exercise_id, dot) ==
    IF ~self.is_trained THEN self.global_mean
    ELSE IF \/ user_id \notin DOMAIN self.user_to_index
            \/ exercise_id \notin DOMAIN self.exercise_to_index
    THEN self.global_mean
    ELSE LET r == prediction_body(self, user_id, exercise_id, dot)
         IN  IF r.raised THEN self.global_mean ELSE r.value

\* the values the factor product of line 334 can take for a pair: the product is
\* computed only for a trained model that knows both the user and the exercise
dot_values(self, user_id, exercise_id) ==
    IF /\ self.is_trained
       /\ user_id \in DOMAIN self.user_to_index
       /\ exercise_id \in DOMAIN self.exercise_to_index
    THEN DotValues
    ELSE {0}

\* Python's "needle in text" on strings: a text is held as the set of the words it
\* contains, and every needle of the model is one word
Contains(text, needle) == needle \in text

\* lines 407-450, the part inside the try, without the clamp of line 446
content_similarity_unclamped(self, user_id, exercise_id) ==
    LET user_profile == self.user_profiles[user_id]
        exercise == self.exercise_features[exercise_id]
        exercise_description == exercise.description
        position_part == IF user_profile.position # ""
                            /\ Contains(exercise_description, user_profile.position)
                         THEN 50 ELSE 0
        goals_part == Sum([g \in 1..Len(user_profile.goals) |->
                             IF Contains(exercise_description, user_profile.goals[g])
                             THEN 30 ELSE 0])
        exercise_difficulty == Get(exercise.difficulty, Num(3))
        expected_difficulty ==
            CASE user_profile.experienceLevel = "beginner" -> 2
              [] user_profile.experienceLevel = "intermediate" -> 3
              [] user_profile.experienceLevel = "advanced" -> 4
              [] OTHER -> 3
        gap == IF exercise_difficulty.v >= expected_difficulty
               THEN exercise_difficulty.v - expected_difficulty
               ELSE expected_difficulty - exercise_difficulty.v
    IN  IF exercise_difficulty.tag # "num" THEN Raised
        ELSE Returned(250 + position_part + goals_part
                      + (IF gap <= 1 THEN 40 ELSE IF gap > 2 THEN -30 ELSE 0))

\* lines 407-450, the part inside the try
content_similarity_body(self, user_id, exercise_id) ==
    LET user_profile == self.user_profiles[user_id]
        exercise == self.exercise_features[exercise_id]
        user_position == user_profile.position
        exercise_description == exercise.description
        position_part == IF user_position # "" /\ Contains(exercise_description, user_position)
                         THEN 50 ELSE 0
        user_goals == user_profile.goals
        goals_part == Sum([g \in 1..Len(user_goals) |->
                             IF Contains(exercise_description, user_goals[g])
                             THEN 30 ELSE 0])
        exercise_difficulty == Get(exercise.difficulty, Num(3))
        expected_difficulty ==
            CASE user_profile.experienceLevel = "beginner" -> 2
              [] user_profile.experienceLevel = "intermediate" -> 3
              [] user_profile.experienceLevel = "advanced" -> 4
              [] OTHER -> 3
        gap == IF exercise_difficulty.v >= expected_difficulty
               THEN exercise_difficulty.v - expected_difficulty
               ELSE expected_difficulty - exercise_difficulty.v
    IN  IF exercise_difficulty.tag # "num" THEN Raised
        ELSE Returned(Clamp(100, 500,
                 250 + position_part + goals_part
                 + (IF gap <= 1 THEN 40 ELSE IF gap > 2 THEN -30 ELSE 0)))

\* lines 407-450
calculate_content_similarity(self, user_id, exercise_id) ==
    IF \/ user_id \notin DOMAIN self.user_profiles
       \/ exercise_id \notin DOMAIN self.exercise_features
    THEN 250
    ELSE LET r == content_similarity_body(self, user_id, exercise_id)
         IN  IF r.raised THEN 250 ELSE r.value

\* interaction_matrix[user_idx, :].nnz
row_nnz(matrix, i) == Cardinality({ key \in DOMAIN matrix.cells : key[1] = i })

\* interaction_matrix[:, exercise_idx].nnz
column_nnz(matrix, j) == Cardinality({ key \in DOMAIN matrix.cells : key[2] = j })

\* lines 452-475, in hundredths
calculate_recommendation_confidence(self, user_id, exercise_id) ==
    LET user_part ==
            IF user_id \in DOMAIN self.user_to_index
            THEN Min(30, 5 * row_nnz(self.interaction_matrix,
                                     self.user_to_index[user_id]))
            ELSE 0
        exercise_part ==
            IF exercise_id \in DOMAIN self.exercise_to_index
            THEN Min(20, 10 * column_nnz(self.interaction_matrix,
                                         self.exercise_to_index[exercise_id]))
            ELSE 0
    IN  Min(100, 50 + user_part + exercise_part)

\* lines 477-493 without the confidence weighting of line 484
score_to_percentage_unweighted(score, confidence) ==
    Clamp(0, 100 * 400000, 85 * (score - 1000) * 100 + 15 * 400000)

\* lines 477-493: score in thousandths and confidence in hundredths give the
\* percentage as a count of 400000ths of a percent:
\*   ((score - 1)/4 * confidence + 0.5 * (1 - confidence)) * 85 + 15
score_to_percentage(score, confidence) ==
    Clamp(0, 100 * 400000,
          85 * ((score - 1000) * confidence + 2000 * (100 - confidence))
          + 15 * 400000)

\* Python's round(x, 0) for x = n / d >= 0: to the nearest whole number, a tie
\* going to the even one
round_half_even(n, d) ==
    LET q == n \div d
        r == n % d
    IN  IF 2 * r > d \/ (2 * r = d /\ q % 2 = 1) THEN q + 1 ELSE q

\* line 384 without the round: the percentage in thousandths of a percent
rounded_percentage_not(percentage) == percentage \div 400

\* line 384: round(match_percentage, 0), in thousandths of a percent
rounded_percentage(percentage) == 1000 * round_half_even(percentage, 400000)

\* lines 495-529: the reasons joined by the separator, held as their list
generate_recommendation_reason(svd_score, content_score, confidence) ==
    LET from_svd == IF svd_score > 400
                    THEN <<"Players with similar preferences loved this">>
                    ELSE IF svd_score > 350
                    THEN <<"Based on your training patterns">> ELSE <<>>
        from_content == IF content_score > 400
                        THEN <<"Perfect match for your goals">>
                        ELSE IF content_score > 350
                        THEN <<"Aligns with your position and experience">> ELSE <<>>
        from_confidence == IF confidence > 80
                           THEN <<"High confidence recommendation">>
                           ELSE IF confidence < 50
                           THEN <<"New exercise worth exploring">> ELSE <<>>
        reasons == from_svd \o from_content \o from_confidence
    IN  IF reasons = <<>> THEN <<"Recommended for your development">>
        ELSE Take(reasons, 2)

\* lines 366-396: the recommendation of one candidate
recommendation_for(self, user_id, exercise_id, dot) ==
    LET svd_score == predict_rating(self, user_id, exercise_id, dot)
        content_score == calculate_content_similarity(self, user_id, exercise_id)
        confidence == calculate_recommendation_confidence(self, user_id, exercise_id)
        hybrid_score == 7 * svd_score + 3 * content_score
    IN  [exercise_id |-> exercise_id,
         match_percentage |->
             rounded_percentage(score_to_percentage(hybrid_score, confidence)),
         svd_score |-> svd_score,
         content_score |-> content_score,
         confidence |-> confidence,
         hybrid_score |-> round_half_even(hybrid_score, 10),
         reason |-> generate_recommendation_reason(svd_score, content_score,
                                                   confidence)]

RECURSIVE InsertByPercentage(_, _)
\* list.sort(key=match_percentage, reverse=True) is stable: a record goes after
\* the records of the same percentage that came before it
InsertByPercentage(sorted, rec) ==
    IF sorted = <<>> THEN <<rec>>
    ELSE IF Head(sorted).match_percentage >= rec.match_percentage
    THEN <<Head(sorted)>> \o InsertByPercentage(Tail(sorted), rec)
    ELSE <<rec>> \o sorted

RECURSIVE SortByPercentageFrom(_, _, _)
SortByPercentageFrom(sorted, list, i) ==
    IF i > Len(list) THEN sorted
    ELSE SortByPercentageFrom(InsertByPercentage(sorted, list[i]), list, i + 1)

SortByPercentage(list) == SortByPercentageFrom(<<>>, list, 1)

\* lines 344-405; dots[c] is the value of the factor product of candidate c
get_recommendations(self, user_id, candidate_exercises, n_recommendations, dots) ==
    Take(SortByPercentage(
             [c \in 1..Len(candidate_exercises) |->
                recommendation_for(self, user_id, candidate_exercises[c], dots[c])]),
         n_recommendations)

\* lines 532-575
create_advanced_recommendation_engine(history, profiles, exercise_catalog, n_factors) ==
    train_model(prepare_training_data(NewEngine(n_factors), history, profiles,
                                      exercise_catalog)).engine

----------------------------------------------------------------------------
(* generate_fallback_recommendations, main.py                              *)

\* the words the lower-cased id of an exercise contains
IdWords(exercise_id) ==
    CASE exercise_id = "A" -> {"striker", "shooting"}
      [] exercise_id = "B" -> {"passing"}
      [] OTHER -> {}

\* lines 1181-1202 for one candidate; noise is the value of random.randint(-5, 5)
fallback_percentage(player_profile, exercise_id, noise) ==
    LET position == player_profile.position
        experience == IF player_profile.experienceLevel = "" THEN "intermediate"
                      ELSE player_profile.experienceLevel
        goals == player_profile.goals
        base_score ==
            60
            + (IF position # "" /\ Contains(IdWords(exercise_id), position)
               THEN 10 ELSE 0)
            + Sum([g \in 1..Len(goals) |->
                     IF Contains(IdWords(exercise_id), goals[g]) THEN 15 ELSE 0])
            + (IF experience = "beginner" THEN 5
               ELSE IF experience = "advanced" THEN 10 ELSE 0)
            + noise
    IN  Min(95, Max(30, base_score))

\* lines 1162-1222; percentages in thousandths of a percent, scores in hundredths
generate_fallback_recommendations(user_id, player_profile, candidate_exercises, limit, noise) ==
    LET shortlist == Take(candidate_exercises, limit)
    IN  SortByPercentage(
            [i \in 1..Len(shortlist) |->
               LET percent ==
                       fallback_percentage(player_profile, shortlist[i], noise[i])
               IN  [exercise_id |-> shortlist[i],
                    match_percentage |-> 1000 * percent,
                    svd_score |-> 5 * percent,
                    content_score |-> 5 * percent,
                    confidence |-> 50,
                    hybrid_score |-> 5 * percent,
                    reason |-> <<"Recommended based on your profile">>]])

----------------------------------------------------------------------------
(* The advanced engine on any session list: records arrive, the engine is  *)
(* prepared and trained in any order, and is queried.                      *)

Rated(exercise_id, rating) ==
    [NoExercise EXCEPT !.exercise_id = exercise_id, !.rating = rating]

Named(name, rating) == [NoExercise EXCEPT !.name = name, !.rating = rating]

EngineSession(user_id, exercises, completed_at) ==
    [NoRecord EXCEPT !.user_id = user_id, !.exercises = exercises,
                     !.completed_at = completed_at]

\* explicit and estimated ratings; no date, an old, a current and a future date, a
\* date that does not parse; a record without user, without exercises, without
\* exercise id
EngineSessions ==
    { EngineSession("u2", <<Rated("A", Num(5)), Rated("B", Num(1))>>, None),
      EngineSession("u3", <<Rated("A", None)>>, Date(60)),
      EngineSession("u1", <<Rated("A", Num(5))>>, Date(-30)),
      EngineSession("u1", <<Rated("B", Num(3)), Rated("", Num(4)), Rated("C", Num(2))>>,
                    Date(0)),
      EngineSession("", <<Rated("C", Num(3))>>, None),
      [NoRecord EXCEPT !.firebaseUID = "u3", !.exercises = <<Named("B", Num(4))>>,
                       !.date = Str],
      EngineSession("u2", <<>>, None) }

\* sessions of one user on one exercise with different ratings and ages, and a
\* session of another user
PairSessions ==
    { EngineSession("u1", <<Rated("A", Num(5))>>, Date(0)),
      EngineSession("u1", <<Rated("A", Num(3))>>, Date(30)),
      EngineSession("u1", <<Rated("A", Num(1))>>, Date(60)),
      EngineSession("u2", <<Rated("A", Num(4)), Rated("B", Num(2))>>, None) }

MaxHistory == 3

\* user_profiles: user id -> profile
Profiles ==
    [u \in {"u1", "u2"} |->
       IF u = "u1"
       THEN [position |-> "striker", goals |-> <<"shooting", "passing">>,
             experienceLevel |-> "advanced"]
       ELSE [position |-> "", goals |-> <<>>, experienceLevel |-> ""]]

\* exercise_catalog: exercise id -> metadata, as get_exercise_catalog builds it
\* (no skillType and no difficultyLevel key)
ExerciseCatalog ==
    [e \in {"A", "B"} |->
       [description |-> IdWords(e),
        difficulty |-> IF e = "A" THEN Num(4) ELSE Num(1),
        skillType |-> "", difficultyLevel |-> None]]

FactorCounts == {0, 1, 60}

QueryUsers == {"u1", "u9"}

QueryExercises == {"A", "C"}

\* the calls after which the behaviour ends
Finished ==
    outcome.op \in {"predict_rating", "get_recommendations",
                    "create_lightweight_recommendations",
                    "generate_fallback_recommendations"}

Vocabulary(self) ==
    [users |-> DOMAIN self.user_to_index, exercises |-> DOMAIN self.exercise_to_index]

InitEngine ==
    /\ path = "advanced"
    /\ pipeline = NoPipeline
    /\ exercise_data = NoExercise
    /\ session_data = NoSession
    /\ outcome = NoOutcome
    /\ user_history = <<>>
    /\ \E n_factors \in FactorCounts :
          /\ request = [NoRequest EXCEPT !.n_factors = n_factors]
          /\ engine = NewEngine(n_factors)
    /\ recommendations = <<>>
    /\ fitted = NoVocabulary

\* one more session record is on file
AddEngineSession ==
    /\ path \in {"advanced", "prepare", "aggregate"}
    /\ ~Finished
    /\ Len(user_history) < MaxHistory
    /\ \E s \in (IF path = "aggregate" THEN PairSessions ELSE EngineSessions) :
          user_history' = Append(user_history, s)
    /\ UNCHANGED <<pipeline, path, exercise_data, session_data, outcome, request,
                   recommendations, engine, fitted>>

PrepareTrainingData ==
    /\ path \in {"advanced", "prepare", "aggregate"}
    /\ ~Finished
    /\ engine' = prepare_training_data(engine, user_history, Profiles, ExerciseCatalog)
    /\ outcome' = NoOutcome
    /\ UNCHANGED <<pipeline, path, exercise_data, session_data, user_history, request,
                   recommendations, fitted>>

TrainModel ==
    /\ path \in {"advanced", "retrain"}
    /\ ~Finished
    /\ LET trained == train_model(engine)
       IN  /\ engine' = trained.engine
           /\ fitted' = IF trained.result THEN Vocabulary(engine) ELSE fitted
           /\ outcome' = [op |-> "train_model", raised |-> FALSE,
                          value |-> IF trained.result THEN 1 ELSE 0]
    /\ UNCHANGED <<pipeline, path, exercise_data, session_data, user_history, request,
                   recommendations>>

CreateAdvancedRecommendationEngine ==
    /\ path = "advanced"
    /\ ~Finished
    /\ engine' = create_advanced_recommendation_engine(
                     user_history, Profiles, ExerciseCatalog, request.n_factors)
    /\ fitted' = IF engine'.is_trained THEN Vocabulary(engine') ELSE NoVocabulary
    /\ outcome' = NoOutcome
    /\ UNCHANGED <<pipeline, path, exercise_data, session_data, user_history, request,
                   recommendations>>

PredictRating ==
    /\ path \in {"advanced", "retrain"}
    /\ ~Finished
    /\ \E user_id \in QueryUsers, exercise_id \in QueryExercises :
       \E dot \in dot_values(engine, user_id, exercise_id) :
          /\ request' = [request EXCEPT !.user_id = user_id,
                                         !.exercise_id = exercise_id]
          /\ outcome' = [op |-> "predict_rating", raised |-> FALSE,
                         value |-> predict_rating(engine, user_id, exercise_id, dot)]
    /\ UNCHANGED <<pipeline, path, exercise_data, session_data, user_history, recommendations,
                   engine, fitted>>

GetRecommendations ==
    /\ path = "advanced"
    /\ ~Finished
    /\ \E user_id \in {"u1", "u9"} :
       \E dot_a \in dot_values(engine, user_id, "A"),
          dot_b \in dot_values(engine, user_id, "B"),
          dot_c \in dot_values(engine, user_id, "C") :
          /\ request' = [request EXCEPT !.user_id = user_id,
                                         !.candidate_exercises = <<"A", "B", "C">>]
          /\ recommendations' = get_recommendations(engine, user_id,
                                      <<"A", "B", "C">>, 2, <<dot_a, dot_b, dot_c>>)
    /\ outcome' = [op |-> "get_recommendations", raised |-> FALSE, value |-> 0]
    /\ UNCHANGED <<pipeline, path, exercise_data, session_data, user_history, engine, fitted>>

NextEngine ==
    \/ AddEngineSession
    \/ PrepareTrainingData
    \/ TrainModel
    \/ CreateAdvancedRecommendationEngine
    \/ PredictRating
    \/ GetRecommendations

SpecEngine == InitEngine /\ [][NextEngine]_vars

----------------------------------------------------------------------------
(* generate_fallback_recommendations on any request *)

NoProfile == [position |-> "", goals |-> <<>>, experienceLevel |-> ""]

NoiseValues == -5..5

InitFallback ==
    /\ path = "fallback"
    /\ pipeline = NoPipeline
    /\ exercise_data = NoExercise
    /\ session_data = NoSession
    /\ outcome = NoOutcome
    /\ user_history = <<>>
    /\ request = NoRequest
    /\ recommendations = <<>>
    /\ engine = NewEngine(50)
    /\ fitted = NoVocabulary

GenerateFallbackRecommendations ==
    /\ path = "fallback"
    /\ ~Finished
    /\ \E user_id \in {"u1", "u2", "u3"}, candidate_exercises \in CandidateLists,
          limit \in {1, 2} :
          \E noise \in [1..limit -> NoiseValues] :
             /\ request' = [request EXCEPT !.user_id = user_id,
                                            !.candidate_exercises = candidate_exercises]
             /\ recommendations' = generate_fallback_recommendations(
                                       user_id,
                                       IF user_id \in DOMAIN Profiles
                                       THEN Profiles[user_id] ELSE NoProfile,
                                       candidate_exercises, limit, noise)
    /\ outcome' = [op |-> "generate_fallback_recommendations", raised |-> FALSE,
                   value |-> 0]
    /\ UNCHANGED <<pipeline, path, exercise_data, session_data, user_history, engine, fitted>>

NextFallback == GenerateFallbackRecommendations

SpecFallback == InitFallback /\ [][NextFallback]_vars

----------------------------------------------------------------------------
(* Every path that produces recommendations; a call of predict_rating alone *)
(* produces none                                                            *)

InitRecommend == InitLight \/ InitEngine \/ InitFallback

NextRecommend ==
    \/ AddLightSession
    \/ CreateLightweightRecommendations
    \/ AddEngineSession
    \/ PrepareTrainingData
    \/ TrainModel
    \/ CreateAdvancedRecommendationEngine
    \/ GetRecommendations
    \/ GenerateFallbackRecommendations

SpecRecommend == InitRecommend /\ [][NextRecommend]_vars

----------------------------------------------------------------------------
(* Properties of the two rating estimators *)

RatingDone == outcome.op = "_calculate_implicit_rating"

\* C3: _calculate_implicit_rating never raises and its result lies in
\* [1.0, 5.0], whatever signals are present, absent or ill-typed.
C3_ImplicitRatingTotalBounded ==
    RatingDone => (~outcome.raised /\ 100 <= outcome.value /\ outcome.value <= 500)

\* a record whose technical execution is not a number was rated through the
\* except clause, and a record was rated whose adjustments exceed 5.0
C3_Witness ==
    /\ RatingDone
    /\ exercise_data.technical_execution = Str
    /\ exercise_data.rating = None /\ exercise_data.performanceRating = None
    /\ outcome.value = 250

C6_NoSignalsNeutral ==
    (RatingDone /\ exercise_data = NoExercise /\ session_data = NoSession)
    => outcome.value = NeutralRating

ScoreDone == outcome.op = "calculate_exercise_score"

\* C4: calculate_exercise_score lies in [0.1, 1.0] and equals
\* 0.4*completionRate + 0.3*min(duration_minutes/30, 1) + 0.3*technical/5
\* clamped to that interval (missing fields read as 0.5, 0 and 3).
C4_ExerciseScoreFormula ==
    LET c == IF session_data.completionRate.tag = "None" THEN 50
             ELSE session_data.completionRate.v
        d == IF session_data.duration.tag = "None" THEN 0 ELSE session_data.duration.v
        t == IF session_data.technicalExecution.tag = "None" THEN 3
             ELSE session_data.technicalExecution.v
        capped == IF d >= 1800 THEN 300 ELSE d \div 6
        raw == 4 * c + capped + 60 * t
    IN  ScoreDone =>
           /\ 100 <= outcome.value /\ outcome.value <= 1000
           /\ outcome.value = (IF raw < 100 THEN 100 ELSE IF raw > 1000 THEN 1000 ELSE raw)

\* a one-hour session, where the duration cap decides the score
C4_Witness ==
    /\ ScoreDone
    /\ session_data.duration = Num(3600)
    /\ session_data.completionRate = Num(50)
    /\ session_data.technicalExecution = Num(1)
    /\ outcome.value = 560

----------------------------------------------------------------------------
(* Properties of create_lightweight_recommendations *)

LightDone == outcome.op = "create_lightweight_recommendations"

\* the exercises the target user of the request has a session for
RatedByTarget ==
    { (IF user_history[i].exerciseName = "" THEN "Unknown"
       ELSE user_history[i].exerciseName) :
      i \in { j \in 1..Len(user_history) : user_history[j].userId = request.user_id } }

Candidates ==
    { request.candidate_exercises[i] : i \in 1..Len(request.candidate_exercises) }

----------------------------------------------------------------------------
(* Properties of the advanced engine *)

\* C7 (as claimed): every cell stored in the interaction matrix built by
\* prepare_training_data lies in [1.0, 5.0], whatever the records and their
\* timestamps are.
C7_CellsInRange ==
    engine.interaction_matrix.present =>
       \A key \in DOMAIN engine.interaction_matrix.cells :
          /\ 100 <= engine.interaction_matrix.cells[key]
          /\ engine.interaction_matrix.cells[key] <= 500

PredictDone == outcome.op = "predict_rating"

\* C8 (as claimed): predict_rating does not raise, and returns exactly global_mean
\* when the user or the exercise was not in the vocabulary the model was fitted
\* on, which covers every pair when no fit ever succeeded.
C8_UnknownGivesGlobalMean ==
    PredictDone =>
       /\ ~outcome.raised
       /\ (\/ request.user_id \notin fitted.users
           \/ request.exercise_id \notin fitted.exercises)
             => outcome.value = engine.global_mean

OneUserOrOneExercise ==
    /\ engine.interaction_matrix.present
    /\ \/ engine.interaction_matrix.shape[1] = 1
       \/ engine.interaction_matrix.shape[2] = 1
    /\ fitted = NoVocabulary

\* C10 (as claimed): when the factorization path is given records of one user or
\* of one exercise, the engine is untrained, nothing is raised, and the
\* recommendations delivered are those of the lightweight engine on the same
\* records.
C10_LightweightWhenUntrained ==
    (outcome.op = "get_recommendations" /\ OneUserOrOneExercise)
    => /\ ~engine.is_trained
       /\ ~outcome.raised
       /\ recommendations = create_lightweight_recommendations(
                                user_history, request.candidate_exercises,
                                engine.exercise_features, request.user_id)

----------------------------------------------------------------------------
(* Properties of every path that produces recommendations *)

\* the match percentage of a recommendation, under either key
Percentage(rec) ==
    IF "matchPercentage" \in DOMAIN rec THEN rec.matchPercentage
    ELSE rec.match_percentage

\* C2: every recommendation produced by get_recommendations,
\* generate_recommendations, the foundational defaults or
\* generate_fallback_recommendations has a match percentage that is a whole
\* number in [0, 100].
C2_IntegerPercentage ==
    \A i \in 1..Len(recommendations) :
       /\ Percentage(recommendations[i]) % 1000 = 0
       /\ 0 <= Percentage(recommendations[i])
       /\ Percentage(recommendations[i]) <= 100000

\* a trained engine recommended an exercise whose percentage was not whole before
\* the rounding
C2_Witness ==
    /\ outcome.op = "get_recommendations"
    /\ engine.is_trained
    /\ \E i \in 1..Len(recommendations) :
          score_to_percentage(7 * recommendations[i].svd_score
                              + 3 * recommendations[i].content_score,
                              recommendations[i].confidence) % 400000 # 0

----------------------------------------------------------------------------
(* calculate_user_similarity on any two score profiles *)

\* the scores a profile may hold, in thousandths
ScoreValues == {0, 100, 550, 1000}

RECURSIVE ScoreProfilesFrom(_)
\* the dicts exercise -> score over the exercises ExerciseIds[i..3]
ScoreProfilesFrom(i) ==
    IF i > 3 THEN { <<>> }
    ELSE LET rest == ScoreProfilesFrom(i + 1)
         IN  rest \cup { <<[k |-> ExerciseIds[i], v |-> v]>> \o r :
                           v \in ScoreValues, r \in rest }

ScoreProfiles == ScoreProfilesFrom(1)

InitSimilarity ==
    /\ path = "similarity"
    /\ pipeline = NoPipeline
    /\ exercise_data = NoExercise
    /\ session_data = NoSession
    /\ outcome = NoOutcome
    /\ user_history = <<>>
    /\ \E user1_scores \in ScoreProfiles, user2_scores \in ScoreProfiles :
          request = [user1_scores |-> user1_scores, user2_scores |-> user2_scores]
    /\ recommendations = <<>>
    /\ engine = NewEngine(50)
    /\ fitted = NoVocabulary

CalculateUserSimilarity ==
    /\ path = "similarity"
    /\ outcome.op = "none"
    /\ outcome' = [op |-> "calculate_user_similarity", raised |-> FALSE,
                   value |-> calculate_user_similarity(request.user1_scores,
                                                       request.user2_scores)]
    /\ UNCHANGED <<pipeline, path, exercise_data, session_data, user_history, request,
                   recommendations, engine, fitted>>

NextSimilarity == CalculateUserSimilarity

SpecSimilarity == InitSimilarity /\ [][NextSimilarity]_vars

SimilarityDone == outcome.op = "calculate_user_similarity"

\* the number of nonzero entries of a profile
nonzero_entries(user_scores) ==
    Cardinality({ i \in 1..Len(user_scores) : user_scores[i].v # 0 })

\* C11 (as claimed): calculate_user_similarity gives the same value with its two
\* arguments exchanged, and gives exactly 1.0 for a profile with at least 2
\* nonzero entries compared with itself.
C11_SymmetricAndUnit ==
    SimilarityDone =>
       /\ outcome.value = calculate_user_similarity(request.user2_scores,
                                                    request.user1_scores)
       /\ (/\ request.user1_scores = request.user2_scores
           /\ nonzero_entries(request.user1_scores) >= 2)
             => outcome.value = 1000

----------------------------------------------------------------------------
(* get_content_based_recommendations on any profile of the target user *)

ContentExercises == <<"A", "B", "C", "D", "Unknown">>

\* exercise_metadata: no entry for "Unknown", no difficultyLevel key for "D"
ContentCatalog ==
    [e \in {"A", "B", "C", "D"} |->
       [skillType |-> IF e \in {"A", "B"} THEN "Passing" ELSE "",
        difficultyLevel |-> CASE e = "A" -> Num(3)
                              [] e = "B" -> Num(4)
                              [] e = "C" -> Num(1)
                              [] OTHER -> None]]

RECURSIVE ContentProfilesFrom(_)
\* the dicts exercise -> score over the exercises ContentExercises[i..5]
ContentProfilesFrom(i) ==
    IF i > Len(ContentExercises) THEN { <<>> }
    ELSE LET rest == ContentProfilesFrom(i + 1)
         IN  rest \cup { <<[k |-> ContentExercises[i], v |-> v]>> \o r :
                           v \in {100, 1000}, r \in rest }

ContentProfiles == ContentProfilesFrom(1)

InitContent ==
    /\ path = "content"
    /\ pipeline = NoPipeline
    /\ exercise_data = NoExercise
    /\ session_data = NoSession
    /\ outcome = NoOutcome
    /\ \E target_scores \in ContentProfiles :
          user_history = <<[k |-> "u1", v |-> target_scores]>>
    /\ request = NoRequest
    /\ recommendations = <<>>
    /\ engine = NewEngine(50)
    /\ fitted = NoVocabulary

\* user_history holds user_exercise_scores here
GetContentBasedRecommendations ==
    /\ path = "content"
    /\ outcome.op = "none"
    /\ \E target_user_id \in {"u1", "u2"} :
          /\ request' = [request EXCEPT !.user_id = target_user_id,
                                         !.candidate_exercises = ContentExercises]
          /\ recommendations' = get_content_based_recommendations(
                                    user_history, target_user_id, ContentExercises,
                                    ContentCatalog, 6)
    /\ outcome' = [op |-> "get_content_based_recommendations", raised |-> FALSE,
                   value |-> 0]
    /\ UNCHANGED <<pipeline, path, exercise_data, session_data, user_history, engine, fitted>>

NextContent == GetContentBasedRecommendations

SpecContent == InitContent /\ [][NextContent]_vars

ContentDone == outcome.op = "get_content_based_recommendations"

\* the rated exercises of the target that have a difficulty, i.e. metadata
RatedWithDifficulty(target_scores) ==
    SelectSeq(target_scores, LAMBDA e : e.k \in DOMAIN ContentCatalog)

\* the average difficulty of the rated items, rounded down (0 when there is none)
RatedAverageDifficulty(target_scores) ==
    LET rated == RatedWithDifficulty(target_scores)
    IN  Sum([i \in 1..Len(rated) |-> difficulty_level(ContentCatalog, rated[i].k)])
        \div Max(Len(rated), 1)

\* C12 (as claimed): every recommended item is one the user has not rated, and it
\* carries the +0.1 bonus over the skill preference exactly when its difficulty is
\* the rounded-down average difficulty of the user's rated items plus 1.
C12_NextStepBonus ==
    ContentDone =>
       LET target_scores == DictGet(user_history, "u1")
       IN  \A i \in 1..Len(recommendations) :
              LET rec == recommendations[i]
                  base == skill_preference(target_scores, ContentCatalog,
                                           skill_type(ContentCatalog, rec.k))
              IN  /\ ~DictHas(target_scores, rec.k)
                  /\ rec.v \in {base, base + 100}
                  /\ rec.v = base + 100
                       <=> difficulty_level(ContentCatalog, rec.k)
                             = RatedAverageDifficulty(target_scores) + 1

----------------------------------------------------------------------------
(* _calculate_recommendation_confidence on matrices with many interactions *)

\* the largest numbers of stored ratings of the target user and of the target
\* exercise, past the points where the claim lets the two terms saturate
MaxUserInteractions == 21

MaxExerciseInteractions == 11

\* the ids in sorted order; the target user and the target exercise come first
ConfidenceUsers ==
    <<"u1", "u02", "u03", "u04", "u05", "u06", "u07", "u08",
       "u09", "u10", "u11", "u12">>

ConfidenceExercises ==
    <<"A", "e02", "e03", "e04", "e05", "e06", "e07", "e08",
       "e09", "e10", "e11", "e12", "e13", "e14", "e15", "e16",
       "e17", "e18", "e19", "e20", "e21", "e22">>

\* a prepared engine where user "u1" (row 0) has a ratings of other exercises,
\* exercise "A" (column 0) has b ratings of other users, and the cell of the pair
\* itself is stored when shared holds
confidence_engine(a, b, shared) ==
    LET cells == { <<0, j>> : j \in 1..a } \cup { <<i, 0>> : i \in 1..b }
                 \cup (IF shared THEN { <<0, 0>> } ELSE {})
        users == { ConfidenceUsers[i] : i \in 1..(b + 1) }
        exercises == { ConfidenceExercises[j] : j \in 1..(a + 1) }
    IN  [NewEngine(50) EXCEPT
           !.user_to_index = [u \in users |-> IndexIn(ConfidenceUsers, u) - 1],
           !.index_to_user = [i \in 0..b |-> ConfidenceUsers[i + 1]],
           !.exercise_to_index =
               [e \in exercises |-> IndexIn(ConfidenceExercises, e) - 1],
           !.index_to_exercise = [j \in 0..a |-> ConfidenceExercises[j + 1]],
           !.interaction_matrix =
               [present |-> TRUE, shape |-> <<b + 1, a + 1>>,
                cells |-> [key \in cells |-> 300]],
           !.global_mean = 300]

InitConfidence ==
    /\ path = "confidence"
    /\ pipeline = NoPipeline
    /\ exercise_data = NoExercise
    /\ session_data = NoSession
    /\ outcome = NoOutcome
    /\ user_history = <<>>
    /\ request = NoRequest
    /\ recommendations = <<>>
    /\ \E a \in 0..(MaxUserInteractions - 1), b \in 0..(MaxExerciseInteractions - 1),
          shared \in BOOLEAN :
          engine = confidence_engine(a, b, shared)
    /\ fitted = NoVocabulary

CalculateRecommendationConfidence ==
    /\ path = "confidence"
    /\ outcome.op = "none"
    /\ \E user_id \in {"u1", "u99"}, exercise_id \in {"A", "e99"} :
          /\ request' = [request EXCEPT !.user_id = user_id,
                                         !.exercise_id = exercise_id]
          /\ outcome' = [op |-> "_calculate_recommendation_confidence",
                         raised |-> FALSE,
                         value |-> calculate_recommendation_confidence(
                                       engine, user_id, exercise_id)]
    /\ UNCHANGED <<pipeline, path, exercise_data, session_data, user_history, recommendations,
                   engine, fitted>>

NextConfidence == CalculateRecommendationConfidence

SpecConfidence == InitConfidence /\ [][NextConfidence]_vars

ConfidenceDone == outcome.op = "_calculate_recommendation_confidence"

\* the interaction counts of the pair asked about
user_interactions == row_nnz(engine.interaction_matrix, 0)

exercise_interactions == column_nnz(engine.interaction_matrix, 0)

\* C13 (as claimed): the confidence is min(1.0, 0.5 + user_term + item_term); an
\* unknown user or item contributes 0; the user term is below its maximum 0.3
\* under 20 interactions and is 0.3 from 20 on; the item term is below its
\* maximum 0.2 under 10 interactions and is 0.2 from 10 on.
C13_ConfidenceSaturation ==
    ConfidenceDone =>
       LET user_known == request.user_id = "u1"
           item_known == request.exercise_id = "A"
       IN  \E user_term \in 0..30, item_term \in 0..20 :
              /\ outcome.value = Min(100, 50 + user_term + item_term)
              /\ ~user_known => user_term = 0
              /\ ~item_known => item_term = 0
              /\ user_known => (user_term = 30 <=> user_interactions >= 20)
              /\ item_known => (item_term = 20 <=> exercise_interactions >= 10)

----------------------------------------------------------------------------
(* _score_to_percentage on any score and confidence *)

\* hybrid scores in thousandths: the range 1.0 to 5.0 in steps of 0.25, and
\* scores outside it
HybridScores == { 1000 + 250 * i : i \in 0..16 } \cup {0, 500, 5640, 7000}

\* confidences in hundredths
Confidences == { 10 * i : i \in 0..10 } \cup {55, 85}

InitPercentage ==
    /\ path = "percentage"
    /\ pipeline = NoPipeline
    /\ exercise_data = NoExercise
    /\ session_data = NoSession
    /\ outcome = NoOutcome
    /\ user_history = <<>>
    /\ \E score \in HybridScores, confidence \in Confidences :
          request = [score |-> score, confidence |-> confidence]
    /\ recommendations = <<>>
    /\ engine = NewEngine(50)
    /\ fitted = NoVocabulary

ScoreToPercentage ==
    /\ path = "percentage"
    /\ outcome.op = "none"
    /\ outcome' = [op |-> "_score_to_percentage", raised |-> FALSE,
                   value |-> score_to_percentage(request.score, request.confidence)]
    /\ UNCHANGED <<pipeline, path, exercise_data, session_data, user_history, request,
                   recommendations, engine, fitted>>

NextPercentage == ScoreToPercentage

SpecPercentage == InitPercentage /\ [][NextPercentage]_vars

PercentageDone == outcome.op = "_score_to_percentage"

\* one percent, in the unit of score_to_percentage
Percent == 400000

\* C14: _score_to_percentage returns adjusted * 85 + 15 clamped to [0, 100], where
\* adjusted = normalized * confidence + 0.5 * (1 - confidence) and normalized =
\* (score - 1) / 4; for a score in [1, 5] the result lies in [15, 100], and at
\* confidence 0 it is 57.5 whatever the score.
C14_PercentageRange ==
    PercentageDone =>
       LET normalized4 == request.score - 1000
           adjusted == normalized4 * request.confidence
                       + 2000 * (100 - request.confidence)
           percentage == 85 * adjusted + 15 * Percent
       IN  /\ outcome.value = Max(0, Min(100 * Percent, percentage))
           /\ (1000 <= request.score /\ request.score <= 5000)
                => /\ 15 * Percent <= outcome.value
                   /\ outcome.value <= 100 * Percent
           /\ request.confidence = 0 => 2 * outcome.value = 115 * Percent

\* C14 witness: the best score at confidence 0 gives 57.5, the best score at full
\* confidence gives 100
C14_Witness ==
    /\ PercentageDone
    /\ request.score = 5000
    /\ \/ request.confidence = 0 /\ 2 * outcome.value = 115 * Percent
       \/ request.confidence = 100 /\ outcome.value = 100 * Percent

----------------------------------------------------------------------------
(* prepare_training_data: the vocabularies *)

InitPrepare ==
    /\ path = "prepare"
    /\ pipeline = NoPipeline
    /\ exercise_data = NoExercise
    /\ session_data = NoSession
    /\ outcome = NoOutcome
    /\ user_history = <<>>
    /\ request = NoRequest
    /\ recommendations = <<>>
    /\ engine = NewEngine(50)
    /\ fitted = NoVocabulary

NextPrepare == AddEngineSession \/ PrepareTrainingData

SpecPrepare == InitPrepare /\ [][NextPrepare]_vars

\* the orders in which the records of a history can be given
PermutationsOf(history) ==
    LET n == Len(history)
    IN  { [i \in 1..n |-> history[p[i]]] :
            p \in { q \in [1..n -> 1..n] : \A i, j \in 1..n : q[i] = q[j] => i = j } }

\* to_index and to_id are inverse bijections between the ids and 0..n-1
InverseBijections(to_index, to_id) ==
    LET n == Cardinality(DOMAIN to_index)
    IN  /\ DOMAIN to_id = 0..(n - 1)
        /\ \A x \in DOMAIN to_index :
              /\ to_index[x] \in DOMAIN to_id
              /\ to_id[to_index[x]] = x
        /\ \A idx \in DOMAIN to_id :
              /\ to_id[idx] \in DOMAIN to_index
              /\ to_index[to_id[idx]] = idx

\* the indices follow the sorted order of the ids (universe lists the ids sorted)
InSortedOrder(to_index, universe) ==
    \A x, y \in DOMAIN to_index :
       to_index[x] < to_index[y] <=> IndexIn(universe, x) < IndexIn(universe, y)

\* the four index maps of an engine
IndexMaps(self) ==
    <<self.user_to_index, self.index_to_user,
      self.exercise_to_index, self.index_to_exercise>>

\* C15: a call of prepare_training_data leaves user_to_index / index_to_user and
\* exercise_to_index / index_to_exercise as mutually inverse bijections between
\* the distinct ids and 0..n-1, numbered in the sorted order of the ids, and the
\* same four maps result from every permutation of the input records.
C15_SortedIndexBijections ==
    [][ PrepareTrainingData =>
          /\ InverseBijections(engine'.user_to_index, engine'.index_to_user)
          /\ InverseBijections(engine'.exercise_to_index, engine'.index_to_exercise)
          /\ InSortedOrder(engine'.user_to_index, UserIds)
          /\ InSortedOrder(engine'.exercise_to_index, ExerciseIds)
          /\ \A history \in PermutationsOf(user_history) :
                IndexMaps(with_vocabulary(engine, history_users(history),
                                          history_exercises(history), Profiles,
                                          ExerciseCatalog))
                  = IndexMaps(engine')
      ]_vars

\* C15 witness: three users and three exercises are indexed 0, 1, 2 from a
\* history that names them out of sorted order
C15_Witness ==
    /\ path = "prepare"
    /\ Len(user_history) = 3
    /\ session_user(user_history[1]) = "u3"
    /\ session_user(user_history[3]) = "u1"
    /\ engine.interaction_matrix.present
    /\ engine.user_to_index = [u \in {"u1", "u2", "u3"} |-> IndexIn(UserIds, u) - 1]
    /\ DOMAIN engine.index_to_exercise = 0..2

----------------------------------------------------------------------------
(* prepare_training_data: records without a user id or an exercise id *)

\* a session with the exercises that have an id
WithValidExercises(session) ==
    [session EXCEPT !.exercises = SelectSeq(session.exercises,
                                            LAMBDA e : exercise_key(e) # "")]

\* the valid records of a history: the sessions that have a user id, each with
\* its exercises that have an id, and only the sessions where one is left
ValidRecords(history) ==
    SelectSeq([i \in 1..Len(history) |-> WithValidExercises(history[i])],
              LAMBDA session : session_user(session) # "" /\ session.exercises # <<>>)

\* C16 (as claimed): prepare_training_data gives the result it gives on the valid
\* records alone (those with a user id and an exercise id), so every indexed user
\* and every indexed exercise has at least one stored rating.
C16_InvalidRecordsDropped ==
    [][ PrepareTrainingData =>
          /\ engine' = prepare_training_data(engine, ValidRecords(user_history),
                                             Profiles, ExerciseCatalog)
          /\ \A u \in DOMAIN engine'.user_to_index :
                row_nnz(engine'.interaction_matrix, engine'.user_to_index[u]) >= 1
          /\ \A e \in DOMAIN engine'.exercise_to_index :
                column_nnz(engine'.interaction_matrix,
                           engine'.exercise_to_index[e]) >= 1
      ]_vars

----------------------------------------------------------------------------
(* prepare_training_data: several records of one (user, exercise) pair *)

InitAggregate ==
    /\ path = "aggregate"
    /\ pipeline = NoPipeline
    /\ exercise_data = NoExercise
    /\ session_data = NoSession
    /\ outcome = NoOutcome
    /\ user_history = <<>>
    /\ request = NoRequest
    /\ recommendations = <<>>
    /\ engine = NewEngine(50)
    /\ fitted = NoVocabulary

NextAggregate == AddEngineSession \/ PrepareTrainingData

SpecAggregate == InitAggregate /\ [][NextAggregate]_vars

\* the age of a session in days; a session without a date counts as older than
\* every dated one
days_ago_of(session) ==
    LET session_date == PyOr(session.completed_at, session.date)
    IN  IF session_date.tag = "date" THEN session_date.v ELSE 1000

\* the permutations of a history that are in chronological order, oldest first
Chronological(history) ==
    { h \in PermutationsOf(history) :
        \A i, j \in 1..Len(h) : i < j => days_ago_of(h[i]) >= days_ago_of(h[j]) }

\* C17 (as claimed): the cell prepare_training_data stores for a pair is the
\* weighted average its records give in chronological order, the most recent one
\* carrying the largest weight, whatever the order of the input; so every
\* permutation of the input gives the same matrix.
C17_ChronologicalWeights ==
    [][ PrepareTrainingData =>
          /\ \A h \in Chronological(user_history) :
                engine'.interaction_matrix
                  = prepare_training_data(engine, h, Profiles,
                                          ExerciseCatalog).interaction_matrix
          /\ \A h \in PermutationsOf(user_history) :
                engine'.interaction_matrix
                  = prepare_training_data(engine, h, Profiles,
                                          ExerciseCatalog).interaction_matrix
      ]_vars

----------------------------------------------------------------------------
(* build_user_profiles: several sessions of one user on one exercise *)

\* session.get('exerciseName', 'Unknown')
exercise_name_of(session) ==
    IF session.exerciseName = "" THEN "Unknown" ELSE session.exerciseName

\* the sessions of one user on one exercise, in the order of the input
SessionsOf(user_sessions, user_id, exercise_name) ==
    SelectSeq(user_sessions,
              LAMBDA s : s.userId = user_id /\ exercise_name_of(s) = exercise_name)

\* the arithmetic mean of calculate_exercise_score over sessions
MeanScore(sessions) ==
    Sum([i \in 1..Len(sessions) |-> calculate_exercise_score(sessions[i])])
    \div Len(sessions)

\* C18 (as claimed): in the profiles create_lightweight_recommendations builds,
\* the score of every (user, exercise) pair is the arithmetic mean of
\* calculate_exercise_score over all sessions of that user on that exercise.
C18_ProfileIsMean ==
    LightDone =>
       LET scores == build_user_profiles(user_history)
       IN  \A u \in 1..Len(scores) :
              \A e \in 1..Len(scores[u].v) :
                 scores[u].v[e].v
                   = MeanScore(SessionsOf(user_history, scores[u].k, scores[u].v[e].k))

----------------------------------------------------------------------------
(* get_collaborative_recommendations on profiles with many neighbours *)

\* the other users, in the order their first session comes
Neighbours == <<"n1", "n2", "n3", "n4", "n5", "n6">>

\* the profile of the target user "u0"
TargetProfile == <<[k |-> "A", v |-> 1000], [k |-> "B", v |-> 550]>>

\* the profiles a neighbour may have: close to the target, less close, and with
\* one exercise in common only
NeighbourProfile(kind) ==
    CASE kind = "close" ->
           <<[k |-> "A", v |-> 1000], [k |-> "B", v |-> 550],
             [k |-> "C", v |-> 1000], [k |-> "E", v |-> 1000]>>
      [] kind = "far" ->
           <<[k |-> "A", v |-> 100], [k |-> "B", v |-> 1000],
             [k |-> "C", v |-> 100], [k |-> "D", v |-> 1000]>>
      [] OTHER ->
           <<[k |-> "A", v |-> 1000], [k |-> "D", v |-> 550]>>

NeighbourKinds == {"none", "close", "far", "apart"}

RECURSIVE neighbour_profiles(_, _)
\* user_exercise_scores of the neighbours i..6 with the kinds chosen
neighbour_profiles(kinds, i) ==
    IF i > Len(Neighbours) THEN <<>>
    ELSE (IF kinds[i] = "none" THEN <<>>
          ELSE <<[k |-> Neighbours[i], v |-> NeighbourProfile(kinds[i])]>>)
         \o neighbour_profiles(kinds, i + 1)

InitCollaborative ==
    /\ path = "collaborative"
    /\ pipeline = NoPipeline
    /\ exercise_data = NoExercise
    /\ session_data = NoSession
    /\ outcome = NoOutcome
    /\ \E kinds \in [1..Len(Neighbours) -> NeighbourKinds] :
          user_history = <<[k |-> "u0", v |-> TargetProfile]>>
                         \o neighbour_profiles(kinds, 1)
    /\ request = NoRequest
    /\ recommendations = <<>>
    /\ engine = NewEngine(50)
    /\ fitted = NoVocabulary

\* user_history holds user_exercise_scores here
GetCollaborativeRecommendations ==
    /\ path = "collaborative"
    /\ outcome.op = "none"
    /\ \E target_user_id \in {"u0", "u9"}, limit \in {1, 6} :
          /\ request' = [user_id |-> target_user_id,
                         candidate_exercises |-> <<"A", "C", "D">>,
                         limit |-> limit]
          /\ recommendations' = get_collaborative_recommendations(
                                    user_history, target_user_id, <<"A", "C", "D">>,
                                    limit)
    /\ outcome' = [op |-> "get_collaborative_recommendations", raised |-> FALSE,
                   value |-> 0]
    /\ UNCHANGED <<pipeline, path, exercise_data, session_data, user_history, engine, fitted>>

NextCollaborative == GetCollaborativeRecommendations

SpecCollaborative == InitCollaborative /\ [][NextCollaborative]_vars

CollaborativeDone == outcome.op = "get_collaborative_recommendations"

\* the similarity of the target to the user at position i of the profiles
SimilarityTo(i) ==
    calculate_user_similarity(DictGet(user_history, request.user_id), user_history[i].v)

\* the positions of the other users with similarity above 0.1
Eligible ==
    { i \in 1..Len(user_history) :
        user_history[i].k # request.user_id /\ SimilarityTo(i) > 100 }

\* the sets of at most 5 most similar eligible users
NearestSets ==
    { N \in SUBSET Eligible :
        /\ Cardinality(N) = Min(5, Cardinality(Eligible))
        /\ \A i \in N, j \in Eligible \ N : SimilarityTo(i) >= SimilarityTo(j) }

\* the mean of similarity * score over the users of N that rated the exercise
NeighbourMean(N, exercise) ==
    LET raters == { i \in N : DictHas(user_history[i].v, exercise) }
    IN  Sum([i \in 1..Len(user_history) |->
               IF i \in raters
               THEN (DictGet(user_history[i].v, exercise) * SimilarityTo(i)) \div 1000
               ELSE 0])
        \div Cardinality(raters)

\* C19: every item get_collaborative_recommendations returns is a candidate the
\* target has not rated, rated by at least one of the at most 5 most similar
\* other users with similarity above 0.1, with the mean of similarity * score
\* over those of them that rated it as its score; the list is sorted by score
\* descending and has at most limit entries.
C19_CollaborativeItems ==
    CollaborativeDone =>
       IF ~DictHas(user_history, request.user_id) THEN recommendations = <<>>
       ELSE /\ Len(recommendations) <= request.limit
            /\ \A i, j \in 1..Len(recommendations) :
                  i < j => recommendations[i].v >= recommendations[j].v
            /\ \E N \in NearestSets :
                  \A r \in 1..Len(recommendations) :
                     LET rec == recommendations[r]
                     IN  /\ InList(rec.k, request.candidate_exercises)
                         /\ ~DictHas(DictGet(user_history, request.user_id), rec.k)
                         /\ \E i \in N : DictHas(user_history[i].v, rec.k)
                         /\ rec.v = NeighbourMean(N, rec.k)

\* C19 witness: six neighbours are similar enough; the least similar one comes
\* first and is left out, so the item only that neighbour rated is not returned
C19_Witness ==
    /\ CollaborativeDone
    /\ request.user_id = "u0"
    /\ Cardinality(Eligible) = 6
    /\ \A i \in Eligible : i > 2 => SimilarityTo(2) < SimilarityTo(i)
    /\ Len(recommendations) = 1
    /\ request.limit = 6

----------------------------------------------------------------------------
(* generate_recommendations on profiles with neighbours and a catalog *)

HybridCandidates == <<"A", "C", "D", "E">>

InitHybrid ==
    /\ path = "hybrid"
    /\ pipeline = NoPipeline
    /\ exercise_data = NoExercise
    /\ session_data = NoSession
    /\ outcome = NoOutcome
    /\ \E kinds \in [1..Len(Neighbours) -> NeighbourKinds] :
          /\ \A i \in 1..3 : kinds[i] = "none"
          /\ user_history = <<[k |-> "u0", v |-> TargetProfile]>>
                            \o neighbour_profiles(kinds, 4)
    /\ request = NoRequest
    /\ recommendations = <<>>
    /\ engine = NewEngine(50)
    /\ fitted = NoVocabulary

\* user_history holds user_exercise_scores here; the catalog is ContentCatalog
\* or empty
GenerateRecommendations ==
    /\ path = "hybrid"
    /\ outcome.op = "none"
    /\ \E target_user_id \in {"u0", "u9"}, limit \in {1, 3},
          c \in {"content", "empty"} :
          /\ request' = [user_id |-> target_user_id,
                         candidate_exercises |-> HybridCandidates,
                         catalog |-> c, limit |-> limit]
          /\ recommendations' = generate_recommendations(
                                    user_history, target_user_id, HybridCandidates,
                                    IF c = "content" THEN ContentCatalog
                                    ELSE Catalog("empty"),
                                    limit)
    /\ outcome' = [op |-> "generate_recommendations", raised |-> FALSE, value |-> 0]
    /\ UNCHANGED <<pipeline, path, exercise_data, session_data, user_history, engine, fitted>>

NextHybrid == GenerateRecommendations

SpecHybrid == InitHybrid /\ [][NextHybrid]_vars

HybridDone == outcome.op = "generate_recommendations"

\* the two lists generate_recommendations combines (lines 150-151)
CollabList ==
    get_collaborative_recommendations(user_history, request.user_id,
                                      request.candidate_exercises, 2 * request.limit)

ContentList ==
    get_content_based_recommendations(
        user_history, request.user_id, request.candidate_exercises,
        IF request.catalog = "content" THEN ContentCatalog ELSE Catalog("empty"),
        2 * request.limit)

\* the score of an exercise in a list, 0 when the list does not hold it
ScoreIn(list, exercise) == IF DictHas(list, exercise) THEN DictGet(list, exercise) ELSE 0

\* 0.7 * collaborative + 0.3 * content
CombinedScore(exercise) ==
    (7 * ScoreIn(CollabList, exercise)) \div 10
    + (3 * ScoreIn(ContentList, exercise)) \div 10

\* the exercises of the two lists
Listed ==
    { CollabList[i].k : i \in 1..Len(CollabList) }
    \cup { ContentList[i].k : i \in 1..Len(ContentList) }

\* C20: generate_recommendations scores every item 0.7 * collaborative + 0.3 *
\* content, a list that does not hold the item contributing 0, and returns the
\* top limit items of the two lists in descending order of that score.
C20_HybridCombination ==
    HybridDone =>
       LET returned == { recommendations[i].exerciseName :
                           i \in 1..Len(recommendations) }
       IN  /\ Len(recommendations) = Min(request.limit, Cardinality(Listed))
           /\ Cardinality(returned) = Len(recommendations)
           /\ returned \subseteq Listed
           /\ \A i \in 1..Len(recommendations) :
                 recommendations[i].confidenceScore
                   = CombinedScore(recommendations[i].exerciseName)
           /\ \A i, j \in 1..Len(recommendations) :
                 i < j => recommendations[i].confidenceScore
                            >= recommendations[j].confidenceScore
           /\ \A x \in returned, y \in Listed \ returned :
                 CombinedScore(x) >= CombinedScore(y)

\* C20 witness: an item of both lists, an item of the collaborative list only and
\* an item of the content list only are returned
C20_Witness ==
    /\ HybridDone
    /\ Len(recommendations) = 3
    /\ \E i, j, k \in 1..3 :
          LET name(n) == recommendations[n].exerciseName
          IN  /\ DictHas(CollabList, name(i)) /\ DictHas(ContentList, name(i))
              /\ DictHas(CollabList, name(j)) /\ ~DictHas(ContentList, name(j))
              /\ ~DictHas(CollabList, name(k)) /\ DictHas(ContentList, name(k))

----------------------------------------------------------------------------
(* _calculate_content_similarity on any profile and any catalog entry *)

\* the goals of a profile: none, some that the description holds, some that it
\* does not, and enough matching ones to pass 5.0
SimilarityGoals ==
    { <<>>, <<"shooting">>, <<"dribbling", "shooting">>,
      <<"shooting", "shooting", "shooting", "shooting",
        "shooting", "shooting", "shooting">> }

\* user_profiles of the engine: empty, or the profile of u1
SimilarityProfiles ==
    { <<>> } \cup
    { [u \in {"u1"} |-> [position |-> position, goals |-> goals,
                         experienceLevel |-> experienceLevel]] :
        position \in {"", "striker"}, goals \in SimilarityGoals,
        experienceLevel \in {"", "beginner", "advanced"} }

\* exercise_features of the engine: empty, or the entry of A; the difficulty is
\* missing, a number, or a string as Firestore may hold it
SimilarityCatalogs ==
    { <<>> } \cup
    { [e \in {"A"} |-> [description |-> description, difficulty |-> difficulty,
                        skillType |-> "", difficultyLevel |-> None]] :
        description \in { {}, {"striker", "shooting"} },
        difficulty \in { None, Num(1), Num(3), Num(6), Str } }

InitContentSimilarity ==
    /\ path = "content_similarity"
    /\ pipeline = NoPipeline
    /\ exercise_data = NoExercise
    /\ session_data = NoSession
    /\ outcome = NoOutcome
    /\ user_history = <<>>
    /\ request = [user_id |-> "u1", exercise_id |-> "A"]
    /\ recommendations = <<>>
    /\ \E profiles \in SimilarityProfiles, catalog \in SimilarityCatalogs :
          engine = [NewEngine(50) EXCEPT !.user_profiles = profiles,
                                         !.exercise_features = catalog]
    /\ fitted = NoVocabulary

CalculateContentSimilarity ==
    /\ path = "content_similarity"
    /\ outcome.op = "none"
    /\ outcome' = [op |-> "_calculate_content_similarity", raised |-> FALSE,
                   value |-> calculate_content_similarity(engine, request.user_id,
                                                          request.exercise_id)]
    /\ UNCHANGED <<pipeline, path, exercise_data, session_data, user_history, request,
                   recommendations, engine, fitted>>

NextContentSimilarity == CalculateContentSimilarity

SpecContentSimilarity == InitContentSimilarity /\ [][NextContentSimilarity]_vars

ContentSimilarityDone == outcome.op = "_calculate_content_similarity"

\* C21: _calculate_content_similarity never raises and always returns a value in
\* [1.0, 5.0]; when the user is absent from the profiles or the item is absent
\* from the catalog it returns the neutral 2.5.
C21_ContentSimilarityRange ==
    ContentSimilarityDone =>
       /\ ~outcome.raised
       /\ 100 <= outcome.value /\ outcome.value <= 500
       /\ (\/ request.user_id \notin DOMAIN engine.user_profiles
           \/ request.exercise_id \notin DOMAIN engine.exercise_features)
            => outcome.value = 250

\* C21 witness: a striker with seven goals the description holds reaches the upper
\* end 5.0, and a catalog entry whose difficulty is a string gives 2.5
C21_Witness ==
    /\ ContentSimilarityDone
    /\ request.user_id \in DOMAIN engine.user_profiles
    /\ request.exercise_id \in DOMAIN engine.exercise_features
    /\ \/ /\ Len(engine.user_profiles[request.user_id].goals) = 7
          /\ engine.exercise_features[request.exercise_id].description # {}
          /\ outcome.value = 500
       \/ /\ engine.exercise_features[request.exercise_id].difficulty = Str
          /\ outcome.value = 250

----------------------------------------------------------------------------
(* One engine prepared and trained again and again, on histories that grow *)
(* and shrink between the calls.                                           *)

RetrainSessions ==
    { EngineSession("u1", <<Rated("A", Num(5)), Rated("B", Num(3))>>, Date(0)),
      EngineSession("u2", <<Rated("A", Num(4)), Rated("B", Num(2))>>, None),
      EngineSession("u1", <<Rated("A", Num(1))>>, Date(0)) }

\* the histories prepare_training_data is called with: one or two sessions
RetrainHistories ==
    { <<s>> : s \in RetrainSessions }
    \cup { <<s, t>> : s \in RetrainSessions, t \in RetrainSessions }

InitRetrain ==
    /\ path = "retrain"
    /\ pipeline = NoPipeline
    /\ exercise_data = NoExercise
    /\ session_data = NoSession
    /\ outcome = NoOutcome
    /\ user_history = <<>>
    /\ request = [NoRequest EXCEPT !.n_factors = 50]
    /\ recommendations = <<>>
    /\ engine = NewEngine(50)
    /\ fitted = NoVocabulary

\* prepare_training_data on the history the caller passes
PrepareTrainingDataOn ==
    /\ path = "retrain"
    /\ ~Finished
    /\ \E history \in RetrainHistories :
          /\ user_history' = history
          /\ engine' = prepare_training_data(engine, history, Profiles,
                                             ExerciseCatalog)
    /\ outcome' = NoOutcome
    /\ UNCHANGED <<pipeline, path, exercise_data, session_data, request, recommendations,
                   fitted>>

NextRetrain == PrepareTrainingDataOn \/ TrainModel \/ PredictRating

SpecRetrain == InitRetrain /\ [][NextRetrain]_vars

\* train_model has just returned False
TrainDeclined == outcome.op = "train_model" /\ outcome.value = 0

\* C22: for any sequence of prepare_training_data and train_model calls on one
\* engine, whenever train_model returns False the engine is left in the
\* trained=false state, so every later predict_rating returns global_mean until a
\* fit succeeds.
C22_DeclinedTrainingUntrains ==
    [][TrainDeclined =>
          /\ ~engine.is_trained
          /\ PredictRating => outcome'.value = engine.global_mean]_vars

\* C23: predict_rating returns a value in [1.0, 5.0] for every (user, item) pair in
\* every engine state: freshly constructed, prepared but untrained, trained, and
\* for users or items outside the vocabulary.
C23_PredictionInRange ==
    outcome.op = "predict_rating" =>
       100 <= outcome.value /\ outcome.value <= 500

\* C24: in every state reachable by any sequence of prepare_training_data and
\* train_model calls on one engine, is_trained = true implies that user_factors and
\* user_biases have exactly one row per entry of the current user_to_index and
\* item_factors and item_biases one row per entry of the current
\* exercise_to_index: the fitted model belongs to the current vocabulary.
C24_FitMatchesVocabulary ==
    engine.is_trained =>
       /\ engine.user_factors.rows = Cardinality(DOMAIN engine.user_to_index)
       /\ Len(engine.user_biases) = Cardinality(DOMAIN engine.user_to_index)
       /\ engine.item_factors.rows = Cardinality(DOMAIN engine.exercise_to_index)
       /\ Len(engine.item_biases) = Cardinality(DOMAIN engine.exercise_to_index)
       /\ fitted = Vocabulary(engine)

----------------------------------------------------------------------------
(* get_advanced_recommendations, main.py: the training records of          *)
(* get_collaborative_training_data are handed to the lightweight engine,   *)
(* and generate_fallback_recommendations answers when that engine raises.  *)

\* an exercise of a trainingSessions document
DocExercise(exerciseName, name, duration) ==
    [exerciseId |-> "", exerciseName |-> exerciseName, name |-> name,
     performanceRating |-> None, rating |-> None, duration |-> duration]

\* a trainingSessions document
SessionDoc(firebaseUID, playerId, exercises) ==
    [firebaseUID |-> firebaseUID, playerId |-> playerId, exercises |-> exercises,
     date |-> None, overallRating |-> None]

\* a or b on strings: the empty string stands for a missing key
StrOr(a, b) == IF a # "" THEN a ELSE b

\* main.py lines 1038-1058: the record of one exercise of one session.  The keys
\* the record does not carry (userId, exerciseName, completionRate,
\* technicalExecution) keep the value that stands for a missing key.
exercise_record(session, exercise) ==
    [exercise_id |-> StrOr(exercise.exerciseId, exercise.name),
     name |-> StrOr(exercise.exerciseName, exercise.name),
     rating |-> PyOr(exercise.performanceRating, exercise.rating)]
    @@ [NoRecord EXCEPT
          !.user_id = StrOr(session.firebaseUID, session.playerId),
          !.duration = Get(exercise.duration, Num(0)),
          !.completed_at = session.date,
          !.exercises = <<exercise>>,
          !.session_rating = Get(session.overallRating, Num(3))]

RECURSIVE training_data_from(_, _, _)
\* main.py lines 1024-1063: the loop over the session documents
training_data_from(training_data, sessions, i) ==
    IF i > Len(sessions) THEN training_data
    ELSE IF StrOr(sessions[i].firebaseUID, sessions[i].playerId) = ""
    THEN training_data_from(training_data, sessions, i + 1)
    ELSE training_data_from(
             training_data
             \o [e \in 1..Len(sessions[i].exercises) |->
                   exercise_record(sessions[i], sessions[i].exercises[e])],
             sessions, i + 1)

\* main.py lines 1010-1069
get_collaborative_training_data(sessions) == training_data_from(<<>>, sessions, 1)

\* main.py line 950
DefaultCandidates ==
    <<"Ball Control", "Passing Accuracy", "Endurance Run", "First Touch",
      "Shooting Accuracy", "Dribbling Skills">>

\* main.py lines 946-950: the candidates of the request, or the first 20 keys of
\* the catalog, or the default set
candidates_of(candidate_exercises, exercise_catalog) ==
    IF candidate_exercises = <<>> /\ DOMAIN exercise_catalog # {}
    THEN Take(SortedIds(DOMAIN exercise_catalog, ExerciseIds), 20)
    ELSE IF candidate_exercises = <<>> THEN DefaultCandidates
    ELSE candidate_exercises

\* main.py lines 913-968.  request_data carries user_id, player_profile,
\* candidate_exercises and limit (None when the key is missing); raises tells
\* whether the lightweight engine raised, noise holds the random.randint values of
\* the fallback.
get_advanced_recommendations(request_data, sessions, exercise_catalog, raises, noise) ==
    LET limit == Min(Get(request_data.limit, Num(5)).v, 10)
        all_user_history == get_collaborative_training_data(sessions)
        candidate_exercises ==
            candidates_of(request_data.candidate_exercises, exercise_catalog)
    IN  IF raises
        THEN generate_fallback_recommendations(
                 request_data.user_id, request_data.player_profile,
                 candidate_exercises, limit, noise)
        ELSE create_lightweight_recommendations(
                 all_user_history, candidate_exercises, exercise_catalog,
                 request_data.user_id)

\* the documents of the trainingSessions collection
SessionDocs ==
    { SessionDoc("u1", "", <<DocExercise("", "A", Num(1800)),
                             DocExercise("B", "", None)>>),
      SessionDoc("", "u2", <<DocExercise("", "A", None)>>),
      SessionDoc("u2", "", <<DocExercise("C", "C", Num(600))>>),
      SessionDoc("", "", <<DocExercise("", "B", None)>>) }

MaxDocs == 3

\* the catalogs get_exercise_catalog may return
ExerciseCatalogs == { ExerciseCatalog, [e \in {} |-> ExerciseCatalog["A"]] }

\* the limit key of the request: missing, or a number
Limits == { None, Num(1), Num(2), Num(4), Num(20) }

InitAdvanced ==
    /\ path = "get_advanced"
    /\ pipeline = NoPipeline
    /\ exercise_data = NoExercise
    /\ session_data = NoSession
    /\ outcome = NoOutcome
    /\ user_history = <<>>
    /\ request = NoRequest
    /\ recommendations = <<>>
    /\ engine = NewEngine(50)
    /\ fitted = NoVocabulary

\* one more document is in the trainingSessions collection
AddSessionDoc ==
    /\ path = "get_advanced"
    /\ outcome.op = "none"
    /\ Len(user_history) < MaxDocs
    /\ \E doc \in SessionDocs : user_history' = Append(user_history, doc)
    /\ UNCHANGED <<pipeline, path, exercise_data, session_data, outcome, request,
                   recommendations, engine, fitted>>

GetAdvancedRecommendations ==
    /\ path = "get_advanced"
    /\ outcome.op = "none"
    /\ \E user_id \in {"u1", "u3"}, candidate_exercises \in {<<>>, <<"A", "B", "C">>},
          limit \in Limits, exercise_catalog \in ExerciseCatalogs,
          raises \in BOOLEAN, n \in {-5, 0, 5} :
          /\ request' = [user_id |-> user_id, player_profile |-> Profiles["u1"],
                         candidate_exercises |-> candidate_exercises,
                         limit |-> limit]
          /\ recommendations' = get_advanced_recommendations(
                                    request', user_history, exercise_catalog, raises,
                                    [i \in 1..10 |-> n])
          /\ outcome' = [op |-> "get_advanced_recommendations", raised |-> raises,
                         value |-> 0]
    /\ UNCHANGED <<pipeline, path, exercise_data, session_data, user_history, engine, fitted>>

NextAdvanced == AddSessionDoc \/ GetAdvancedRecommendations

SpecAdvanced == InitAdvanced /\ [][NextAdvanced]_vars

AdvancedDone == outcome.op = "get_advanced_recommendations"

\* C25: when get_advanced_recommendations hands the records assembled by
\* get_collaborative_training_data to the lightweight engine, every record that
\* carries a user id and an exercise name is added to that user's score profile
\* under that exercise, so a target user with training history is not treated as
\* a user with no history.
C25_RecordsReachProfiles ==
    (AdvancedDone /\ ~outcome.raised) =>
       LET records == get_collaborative_training_data(user_history)
           user_exercise_scores == build_user_profiles(records)
       IN  \A i \in 1..Len(records) :
              (records[i].user_id # "" /\ records[i].name # "") =>
                 /\ DictHas(user_exercise_scores, records[i].user_id)
                 /\ DictHas(DictGet(user_exercise_scores, records[i].user_id),
                            records[i].name)

\* C27: for a request carrying a limit, get_advanced_recommendations returns at
\* most min(limit, 10) recommendations, on the lightweight path as well as on the
\* fallback path.
C27_AtMostLimit ==
    (AdvancedDone /\ request.limit.tag = "num") =>
       Len(recommendations) <= Min(request.limit.v, 10)

----------------------------------------------------------------------------
(* generate_recommendations: the order of the displayed percentages *)

\* C26: the list returned by generate_recommendations is ordered so that the
\* displayed matchPercentage never increases from one position to the next, and
\* the positional variation guarantees that two adjacent positions among the first
\* three never show the same matchPercentage.
C26_PercentagesDescend ==
    HybridDone =>
       \A i \in 1..(Len(recommendations) - 1) :
          /\ recommendations[i].matchPercentage
               >= recommendations[i + 1].matchPercentage
          /\ i + 1 <= 3 =>
               recommendations[i].matchPercentage
                 # recommendations[i + 1].matchPercentage

----------------------------------------------------------------------------
(* generate_drill_pipeline, main.py: the Writer and Referee loop.  A dict  *)
(* of the LLM is a record together with the set of the keys it carries; a  *)
(* message is held as its parts.                                           *)

\* line 348: for attempt in range(3)
Attempts == 3

\* line 567
required_fields ==
    <<"name", "description", "setup", "instructions", "diagram", "difficulty",
      "category", "targetSkills", "equipment">>

\* the equipment names of the model, in a fixed order
EquipmentNames == <<"cones", "ladder", "none">>

\* an f-string: its fixed text and the values put into it
Text(text, label, value, items) ==
    [text |-> text, label |-> label, value |-> value, items |-> items]

\* an entry of the errors list; keys are the keys the dict carries
Error(check, issue, fix) ==
    [keys |-> {"check", "issue", "fix"}, check |-> check, issue |-> issue,
     fix |-> fix]

Element(label, x, y) == [label |-> label, x |-> x, y |-> y]

\* a drill: the keys it carries, the elements of its diagram, its equipment
Drill(fields, elements, equipment) ==
    [fields |-> fields, elements |-> elements, equipment |-> equipment,
     validationWarnings |-> <<>>]

\* None, and the empty dict: both are falsy
NoDrill == Drill({}, <<>>, {})

\* lines 307-314
get_field_dimensions(field_size) ==
    CASE field_size = "small" -> [width |-> 20, length |-> 15]
      [] field_size = "large" -> [width |-> 50, length |-> 30]
      [] OTHER -> [width |-> 30, length |-> 20]

\* lines 566-570
schema_errors(drill) ==
    LET missing == SelectSeq(required_fields, LAMBDA f : f \notin drill.fields)
    IN  [i \in 1..Len(missing) |->
           Error("schema", Text("Missing required field", missing[i], 0, <<>>),
                 Text("Add to response", missing[i], 0, <<>>))]

\* lines 577-582 for one element
element_errors(el, field_dims) ==
    (IF el.x < 0 \/ el.x > field_dims.width
     THEN <<Error("spatial", Text("x exceeds width", el.label, el.x, <<>>),
                  Text("Set x to max", "", field_dims.width, <<>>))>>
     ELSE <<>>)
    \o (IF el.y < 0 \/ el.y > field_dims.length
        THEN <<Error("spatial", Text("y exceeds length", el.label, el.y, <<>>),
                     Text("Set y to max", "", field_dims.length, <<>>))>>
        ELSE <<>>)

RECURSIVE spatial_errors(_, _, _)
\* lines 572-582
spatial_errors(elements, field_dims, i) ==
    IF i > Len(elements) THEN <<>>
    ELSE element_errors(elements[i], field_dims)
         \o spatial_errors(elements, field_dims, i + 1)

\* lines 585-590
equipment_errors(drill, requirements) ==
    LET available == requirements.equipment
        extra == (drill.equipment \ available) \ {"none"}
    IN  IF available # {} /\ extra # {}
        THEN <<Error("equipment",
                     Text("Uses unavailable equipment", "", 0,
                          SelectSeq(EquipmentNames, LAMBDA e : e \in extra)),
                     Text("Only use", "", 0,
                          SelectSeq(EquipmentNames, LAMBDA e : e \in available)))>>
        ELSE <<>>

\* lines 562-593
programmatic_validate(drill, field_dims, requirements) ==
    schema_errors(drill) \o spatial_errors(drill.elements, field_dims, 1)
    \o equipment_errors(drill, requirements)

\* lines 599-601 left out: the answer of the LLM alone decides.  reply is what
\* the LLM call gives: raised when the call or the parsing of its answer
\* fails, and else the parsed dict, with verdict "" and score None for a key
\* that is missing
phase_referee_llm_only(drill, field_dims, requirements, reply) ==
    IF reply.raised THEN [verdict |-> "VALID", errors |-> <<>>, score |-> 70]
    ELSE LET verdict == IF reply.verdict # "" THEN reply.verdict
                        ELSE IF reply.errors = <<>> THEN "VALID" ELSE "ERRORS"
         IN  [verdict |-> verdict, errors |-> reply.errors,
              score |-> IF reply.score.tag = "num" THEN reply.score.v
                        ELSE IF verdict = "VALID" THEN 85 ELSE 50]

\* lines 596-649
phase_referee(drill, field_dims, requirements, reply) ==
    IF programmatic_validate(drill, field_dims, requirements) # <<>>
    THEN [verdict |-> "ERRORS",
          errors |-> programmatic_validate(drill, field_dims, requirements),
          score |-> 30]
    ELSE phase_referee_llm_only(drill, field_dims, requirements, reply)

\* line 366: f"{e['check']}: {e['issue']}. Fix: {e['fix']}"
error_message(e) == <<e.check, e.issue, e.fix>>

\* line 366 raises KeyError when an entry lacks one of the three keys
message_raises(errors) ==
    \E i \in 1..Len(errors) : ~({"check", "issue", "fix"} \subseteq errors[i].keys)

\* line 372: best_drill["validationWarnings"] = revision_errors
with_warnings(drill, revision_errors) ==
    [drill EXCEPT !.fields = @ \cup {"validationWarnings"},
                  !.validationWarnings = revision_errors]

\* lines 369-373: what the pipeline returns after the loop
after_failures(self) ==
    [raised |-> FALSE,
     value |-> IF self.best_drill # NoDrill
               THEN with_warnings(self.best_drill, self.revision_errors)
               ELSE self.drill]

\* lines 355-358: the best attempt so far
with_score(self, validation) ==
    IF validation.score > self.best_score
    THEN [self EXCEPT !.best_score = validation.score, !.best_drill = self.drill]
    ELSE self

\* lines 364-366 and the step of the loop
with_errors(self, validation) ==
    [self EXCEPT
       !.revision_errors = [i \in 1..Len(validation.errors) |->
                              error_message(validation.errors[i])],
       !.attempt = @ + 1,
       !.pc = IF self.attempt + 1 < Attempts THEN "writer" ELSE "done"]

\* the answers of the referee LLM
RefereeErrors ==
    { <<>>,
      <<Error("clarity", Text("Instruction 2 holds two actions", "", 0, <<>>),
              Text("Split it", "", 0, <<>>))>>,
      <<[Error("safety", Text("Too hard", "", 0, <<>>), Text("", "", 0, <<>>))
           EXCEPT !.keys = {"check", "issue"}]>> }

RefereeReplies ==
    { [raised |-> TRUE, verdict |-> "", errors |-> <<>>, score |-> None] }
    \cup { [raised |-> FALSE, verdict |-> verdict, errors |-> errors,
            score |-> score] :
             verdict \in {"VALID", "ERRORS", ""}, errors \in RefereeErrors,
             score \in {None, Num(0), Num(60)} }

\* the drills the writer LLM answers with
WriterDrills ==
    LET all == { required_fields[i] : i \in 1..Len(required_fields) }
    IN  { Drill(all, <<Element("A", 0, 0), Element("B", 20, 15)>>, {"cones"}),
          Drill(all \ {"setup"}, <<>>, {"none"}),
          Drill(all, <<Element("A", 25, -1)>>, {}),
          Drill(all, <<>>, {"cones", "ladder"}) }

\* the call generate_drill_pipeline(..., requirements, ..., field_size, ...); the
\* Scout and Coach phases have answered
InitDrill ==
    /\ path = "drill"
    /\ exercise_data = NoExercise
    /\ session_data = NoSession
    /\ outcome = [NoOutcome EXCEPT !.value = NoDrill]
    /\ user_history = <<>>
    /\ \E equipment \in { {}, {"cones"} }, field_size \in {"small", "large"} :
          request = [equipment |-> equipment, field_size |-> field_size]
    /\ recommendations = <<>>
    /\ engine = NewEngine(50)
    /\ fitted = NoVocabulary
    /\ pipeline = [pc |-> "writer", attempt |-> 0, drill |-> NoDrill,
                   best_drill |-> NoDrill, best_score |-> 0,
                   revision_errors |-> <<>>, rounds |-> <<>>]

\* line 350: the writer answers
PhaseWriter ==
    /\ path = "drill"
    /\ pipeline.pc = "writer"
    /\ \E drill \in WriterDrills :
          pipeline' = [pipeline EXCEPT !.drill = drill, !.pc = "referee"]
    /\ UNCHANGED <<path, exercise_data, session_data, outcome, user_history,
                   request, recommendations, engine, fitted>>

\* lines 353-373: the referee answers, and the pipeline runs up to the next call
\* of the writer or to its end.  rounds records the drill and the validation of
\* every round.
PhaseReferee ==
    /\ path = "drill"
    /\ pipeline.pc = "referee"
    /\ \E reply \in RefereeReplies :
          LET validation == phase_referee(pipeline.drill,
                                get_field_dimensions(request.field_size),
                                request, reply)
              scored == [with_score(pipeline, validation) EXCEPT
                           !.rounds = Append(@, [drill |-> pipeline.drill,
                                                 validation |-> validation])]
          IN  IF validation.verdict = "VALID"
              THEN /\ pipeline' = [scored EXCEPT !.pc = "done"]
                   /\ outcome' = [op |-> "generate_drill_pipeline",
                                  raised |-> FALSE, value |-> pipeline.drill]
              ELSE IF message_raises(validation.errors)
              THEN /\ pipeline' = [scored EXCEPT !.pc = "done"]
                   /\ outcome' = [op |-> "generate_drill_pipeline",
                                  raised |-> TRUE, value |-> NoDrill]
              ELSE /\ pipeline' = with_errors(scored, validation)
                   /\ outcome' = IF pipeline'.pc = "done"
                                 THEN [op |-> "generate_drill_pipeline"]
                                      @@ after_failures(pipeline')
                                 ELSE outcome
    /\ UNCHANGED <<path, exercise_data, session_data, user_history, request,
                   recommendations, engine, fitted>>

NextDrill == PhaseWriter \/ PhaseReferee

SpecDrill == InitDrill /\ [][NextDrill]_vars

\* every call of the LLM answers or fails: the client raises on a timeout
SpecDrillLive == SpecDrill /\ WF_vars(NextDrill)

PipelineDone == path = "drill" /\ pipeline.pc = "done"

\* the pipeline returned through the VALID exit of lines 360-362
ReturnedValid ==
    /\ PipelineDone
    /\ ~outcome.raised
    /\ pipeline.rounds[Len(pipeline.rounds)].validation.verdict = "VALID"

\* the pipeline returned after the loop, lines 370-373
ReturnedAfterFailures ==
    /\ PipelineDone
    /\ ~outcome.raised
    /\ pipeline.rounds[Len(pipeline.rounds)].validation.verdict # "VALID"

\* the Writer then Referee rounds run so far, the one under way included
RoundsRun == Len(pipeline.rounds) + (IF pipeline.pc = "referee" THEN 1 ELSE 0)

\* the drill carries every required field, every element of its diagram lies on
\* the field, and when the request names equipment the drill uses nothing else
ProgrammaticallySound(drill) ==
    LET field_dims == get_field_dimensions(request.field_size)
    IN  /\ \A i \in 1..Len(required_fields) : required_fields[i] \in drill.fields
        /\ \A i \in 1..Len(drill.elements) :
              /\ 0 <= drill.elements[i].x /\ drill.elements[i].x <= field_dims.width
              /\ 0 <= drill.elements[i].y /\ drill.elements[i].y <= field_dims.length
        /\ request.equipment # {} =>
              drill.equipment \subseteq (request.equipment \cup {"none"})

\* a VALID verdict ends the pipeline in its own round with that round's drill,
\* and that drill has no programmatic validation error
ValidExit ==
    \A i \in 1..Len(pipeline.rounds) :
       pipeline.rounds[i].validation.verdict = "VALID" =>
          /\ i = Len(pipeline.rounds)
          /\ PipelineDone
          /\ ~outcome.raised
          /\ outcome.value = pipeline.rounds[i].drill
          /\ ProgrammaticallySound(outcome.value)

\* C28: generate_drill_pipeline runs the Writer then Referee round at most 3
\* times and always terminates; it returns the drill of the first round whose
\* referee verdict is VALID and runs no further round after it, and a drill with
\* a programmatic validation error (missing required field, coordinate outside
\* the field, unavailable equipment) is never returned through that VALID exit.
C28_PipelineTerminates ==
    /\ [](RoundsRun <= Attempts /\ ValidExit)
    /\ [][PipelineDone => UNCHANGED vars]_vars
    /\ <>PipelineDone

\* C28 witness: the second round is VALID after a first round that the
\* programmatic checks rejected, and the pipeline has returned its drill
C28_Witness ==
    /\ ReturnedValid
    /\ Len(pipeline.rounds) = 2
    /\ pipeline.rounds[1].validation.score = 30
    /\ outcome.value = pipeline.rounds[2].drill

\* the round with the highest referee score, the earliest one on ties
BestRound ==
    CHOOSE b \in 1..Len(pipeline.rounds) :
       /\ \A i \in 1..Len(pipeline.rounds) :
             pipeline.rounds[i].validation.score
               <= pipeline.rounds[b].validation.score
       /\ \A i \in 1..(b - 1) :
             pipeline.rounds[i].validation.score
               < pipeline.rounds[b].validation.score

\* the drill without the key added at line 372
WithoutWarnings(drill) ==
    [drill EXCEPT !.fields = @ \ {"validationWarnings"},
                  !.validationWarnings = <<>>]

\* C29: when none of the 3 rounds of generate_drill_pipeline is VALID, the
\* returned drill is the attempt with the highest referee score among the three
\* (the earliest one on ties), and it is returned with a validationWarnings
\* field.
C29_BestAttemptReturned ==
    ReturnedAfterFailures =>
       /\ WithoutWarnings(outcome.value) = pipeline.rounds[BestRound].drill
       /\ "validationWarnings" \in outcome.value.fields

\* C30: the validationWarnings attached to the drill returned by
\* generate_drill_pipeline after 3 failed rounds are exactly the errors the
\* referee reported for that same returned drill, not the errors of another
\* attempt.
C30_WarningsOfReturnedDrill ==
    (ReturnedAfterFailures /\ "validationWarnings" \in outcome.value.fields) =>
       \E r \in 1..Len(pipeline.rounds) :
          /\ pipeline.rounds[r].drill = WithoutWarnings(outcome.value)
          /\ outcome.value.validationWarnings
               = [i \in 1..Len(pipeline.rounds[r].validation.errors) |->
                    error_message(pipeline.rounds[r].validation.errors[i])]

====
